---------------------------- MODULE Spec2Model ----------------------------
(***************************************************************************)
(* warp-review: the unified-diff line map (getValidLines, extractSnippet), *)
(* the context budgeter (buildContext), the review round lifecycle         *)
(* (review), the feedback prompt, the model call with retries and the      *)
(* outcome tracker (trackOutcome), modelled from src/src/context.js,       *)
(* src/src/review.js, src/src/prompt.js and src/bin/init.js.               *)
(*                                                                         *)
(* Text is modelled as a sequence of one-character strings, so that        *)
(* split, startsWith, the hunk-header regular expression and parseInt are  *)
(* computed on characters as the code computes them.                       *)
(***************************************************************************)
EXTENDS Integers, Sequences, FiniteSets, TLC

VARIABLES
    patch,        \* getValidLines / extractSnippet: the patch argument
    targetLine,   \* extractSnippet: the targetLine argument
    valid,        \* the Set returned by getValidLines(patch)
    snippet,      \* the value returned by extractSnippet(patch, targetLine)
    lmPc,         \* which of the two calls have returned
    files,        \* buildContext: the files argument
    systemTokens, \* buildContext: the systemTokens option
    chunks,       \* buildContext: the chunks returned
    truncatedCount, \* buildContext: the truncatedCount returned
    bcPc,         \* whether buildContext has returned
    vcComments,   \* the validation step: allComments
    vcFiles,      \* the validation step: filesToReview
    vcResult,     \* the validation step: validComments, or the error thrown
    vcPc,         \* whether the validation step has run
    store,        \* the telemetry backend: the run of this PR and its rounds
    rv,           \* review(): the locals of every invocation, its pc included
    hist,         \* how many invocations of main() began and ended, whether one
                  \* failed, and how the last one began and ended
    pf,           \* the previous-feedback section: the run's groups, what is built
    rc,           \* reviewChunk and llmWithRetry: the locals of one call
    oc,           \* trackOutcome(): MODE and the locals of the last invocation
    fr            \* fetchWithRetry: the locals of one call, and what it met

lmVars == <<patch, targetLine, valid, snippet, lmPc>>

bcVars == <<files, systemTokens, chunks, truncatedCount, bcPc>>

vcVars == <<vcComments, vcFiles, vcResult, vcPc>>

rvVars == <<store, rv, hist>>

vars == <<lmVars, bcVars, vcVars, rvVars, pf, rc, oc, fr>>

---------------------------------------------------------------------------
(* Bounds of the model *)

\* longest generated patch, in raw lines
MaxPatchLines == 4

\* largest targetLine tried against a generated patch
MaxTarget == 8

\* longest file list given to buildContext
MaxFiles == 3

\* longest comment list given to the validation step
MaxComments == 2

\* review events (invocations of review()) on the one pull request
MaxInvocations == 3

\* round groups of the run when the previous feedback is collected
MaxPrevRounds == 3

\* review events on the pull request whose review is split into passes
MaxSplitInvocations == 2

\* invocations of review() on the pull request that draws many comments
MaxVerboseInvocations == 2

---------------------------------------------------------------------------
(* Text helpers: JavaScript strings as sequences of characters *)

\* JavaScript null / undefined (a value that is no text)
Null == <<"<null>">>

NL == "\n"

Digits == {"0", "1", "2", "3", "4", "5", "6", "7", "8", "9"}

Min(a, b) == IF a <= b THEN a ELSE b

Max(a, b) == IF a >= b THEN a ELSE b

\* a guard that lets null and undefined through
FalsyEmptyOnly(s) == s = <<>>

\* !patch : null, undefined and the empty string are falsy
Falsy(s) == s = Null \/ s = <<>>

\* patch.split('\n') past the guard: a TypeError when patch is no text
SplitThrows(s) == ~Falsy(s) /\ s = Null

\* raw.startsWith(prefix)
StartsWith(s, prefix) ==
    /\ Len(s) >= Len(prefix)
    /\ SubSeq(s, 1, Len(prefix)) = prefix

\* s.slice(from) with a 0-based index
SliceFrom(s, from) == SubSeq(s, from + 1, Len(s))

RECURSIVE SplitFrom(_, _, _)
\* the segments of s from position i on, cur being the segment under way
SplitFrom(s, i, cur) ==
    IF i > Len(s) THEN <<cur>>
    ELSE IF s[i] = NL THEN <<cur>> \o SplitFrom(s, i + 1, <<>>)
    ELSE SplitFrom(s, i + 1, Append(cur, s[i]))

\* patch.split('\n')
Split(s) == SplitFrom(s, 1, <<>>)

RECURSIVE Join(_)
\* lines.join('\n')
Join(lines) ==
    IF Len(lines) = 0 THEN <<>>
    ELSE IF Len(lines) = 1 THEN lines[1]
    ELSE lines[1] \o <<NL>> \o Join(Tail(lines))

DigitValue(c) ==
    CASE c = "0" -> 0 [] c = "1" -> 1 [] c = "2" -> 2 [] c = "3" -> 3
      [] c = "4" -> 4 [] c = "5" -> 5 [] c = "6" -> 6 [] c = "7" -> 7
      [] c = "8" -> 8 [] c = "9" -> 9

RECURSIVE ParseInt(_)
\* parseInt(digits, 10) of a non-empty run of decimal digits
ParseInt(ds) ==
    IF Len(ds) = 0 THEN 0
    ELSE 10 * ParseInt(SubSeq(ds, 1, Len(ds) - 1)) + DigitValue(ds[Len(ds)])

\* the first position at or after p that holds no digit (Len(s)+1 at the end)
DigitRunEnd(s, p) ==
    LET stops == {q \in p .. Len(s) + 1 : q = Len(s) + 1 \/ s[q] \notin Digits}
    IN  CHOOSE q \in stops : \A r \in stops : q <= r

\* \d+(?:,\d+)? from position p: the position after it, 0 when \d+ fails
NumberPairEnd(s, p) ==
    LET e1 == DigitRunEnd(s, p)
        e2 == DigitRunEnd(s, e1 + 1)
    IN  IF e1 = p THEN 0
        ELSE IF e1 <= Len(s) /\ s[e1] = "," /\ e2 > e1 + 1 THEN e2
        ELSE e1

\* raw.match(/^@@ -\d+(?:,\d+)? \+(\d+)(?:,\d+)? @@/): the captured group 1,
\* Null when the line does not match
HunkMatch(raw) ==
    LET oldEnd == NumberPairEnd(raw, 5)
        newAt  == oldEnd + 2
        capEnd == DigitRunEnd(raw, newAt)
        newEnd == NumberPairEnd(raw, newAt)
    IN  IF /\ StartsWith(raw, <<"@", "@", " ", "-">>)
           /\ oldEnd # 0
           /\ Len(raw) >= oldEnd + 1
           /\ SubSeq(raw, oldEnd, oldEnd + 1) = <<" ", "+">>
           /\ newEnd # 0
           /\ Len(raw) >= newEnd + 2
           /\ SubSeq(raw, newEnd, newEnd + 2) = <<" ", "@", "@">>
        THEN SubSeq(raw, newAt, capEnd - 1)
        ELSE Null

---------------------------------------------------------------------------
(* getValidLines, src/src/context.js:121-139 *)

\* a walk that forgets to skip deleted lines
ValidSkipsMarkerOnly(raw) == StartsWith(raw, <<"\\">>)

\* a walk that forgets to skip the no-newline marker
ValidSkipsDeletedOnly(raw) == StartsWith(raw, <<"-">>)

\* the two `continue`s of the loop: a deleted line, a no-newline marker
ValidSkips(raw) == StartsWith(raw, <<"-">>) \/ StartsWith(raw, <<"\\">>)

RECURSIVE ValidFrom(_, _, _)
\* the loop body over lines[i..], currentLine being cur
ValidFrom(lines, i, cur) ==
    IF i > Len(lines) THEN {}
    ELSE IF HunkMatch(lines[i]) # Null
         THEN ValidFrom(lines, i + 1, ParseInt(HunkMatch(lines[i])))
    ELSE IF ValidSkips(lines[i]) THEN ValidFrom(lines, i + 1, cur)
    ELSE {cur} \cup ValidFrom(lines, i + 1, cur + 1)

getValidLines(p) ==
    IF Falsy(p) THEN {} ELSE ValidFrom(Split(p), 1, 0)

---------------------------------------------------------------------------
(* extractSnippet, src/src/context.js:141-164 *)

\* a walk that forgets to skip the no-newline marker
SnippetSkipsDeletedOnly(raw) == StartsWith(raw, <<"-">>)

\* the two `continue`s of extractSnippet's loop
SnippetSkips(raw) == StartsWith(raw, <<"-">>) \/ StartsWith(raw, <<"\\">>)

\* a text that keeps the diff marker
SnippetTextKeepsMarker(raw) == raw

\* raw.startsWith('+') ? raw.slice(1) : raw
SnippetText(raw) == IF StartsWith(raw, <<"+">>) THEN SliceFrom(raw, 1) ELSE raw

RECURSIVE PatchLinesFrom(_, _, _)
\* the loop body over lines[i..]: the {line, text} entries pushed
PatchLinesFrom(lines, i, cur) ==
    IF i > Len(lines) THEN <<>>
    ELSE IF HunkMatch(lines[i]) # Null
         THEN PatchLinesFrom(lines, i + 1, ParseInt(HunkMatch(lines[i])))
    ELSE IF SnippetSkips(lines[i]) THEN PatchLinesFrom(lines, i + 1, cur)
    ELSE <<[line |-> cur, text |-> SnippetText(lines[i])]>>
             \o PatchLinesFrom(lines, i + 1, cur + 1)

\* patchLines of a truthy patch
PatchLines(p) == PatchLinesFrom(Split(p), 1, 0)

\* patchLines.findIndex(p => p.line === targetLine), 0-based, -1 when absent
FindIndex(pl, t) ==
    LET hits == {k \in 1 .. Len(pl) : pl[k].line = t}
    IN  IF hits = {} THEN -1
        ELSE (CHOOSE k \in hits : \A h \in hits : k <= h) - 1

\* a slice that takes no line after the target
SnippetEndNoContext(n, idx) == Min(n, idx + 1)

\* Math.max(0, idx - 1)
SnippetStart(idx) == Max(0, idx - 1)

\* Math.min(patchLines.length, idx + 2)
SnippetEnd(n, idx) == Min(n, idx + 2)

\* patchLines.slice(start, end).map(p => p.text), start and end 0-based
SliceTexts(pl, start, end) ==
    [k \in 1 .. (end - start) |-> pl[start + k].text]

extractSnippet(p, t) ==
    IF Falsy(p) THEN Null
    ELSE LET pl  == PatchLines(p)
             idx == FindIndex(pl, t)
         IN  IF idx = -1 THEN Null
             ELSE Join(SliceTexts(pl, SnippetStart(idx), SnippetEnd(Len(pl), idx)))

---------------------------------------------------------------------------
(* buildContext, src/src/context.js:114-119 and 166-256.                   *)
(* A text enters the budget only through its length, so a file is modelled *)
(* by the lengths of its texts: [nameLen, statusLen, extLen, patchLen,     *)
(* contentLen], a length of 0 standing for null or ''.  A section is       *)
(* [file, full, len]: the index of its file in the files argument, whether *)
(* it carries the full content, and the length of its text.                *)

DEFAULT_CONTEXT_WINDOW == 200000

RESERVED_RESPONSE == 4000

\* systemTokens = 4000 when the option is absent
DefaultSystemTokens == 4000

\* '## File: ' + ' (' + ')\n\n### Diff\n```diff\n' + '\n```\n'
SectionFixedLen == 36

\* '\n### Full file content\n```' + '\n' + '\n```\n'
FullContentFixedLen == 32

\* '\n### Full file content\n(full content omitted - file too large)\n'
OmittedNoteLen == 63

\* '(no diff available)'
NoDiffLen == 19

\* '\n---\n\n'
SeparatorLen == 6

\* '(all files too large for review)'
PlaceholderLen == 32

\* '## All changed files in this PR', '', '', '---', '' and their newlines
ManifestFixedLen == 38

\* '- `' + '` (' + ')' and the newline of one manifest line
ManifestLineFixedLen == 8

\* Math.ceil(text.length / 3), on the length of the text
estimateTokens(len) == (len + 2) \div 3

RECURSIVE SumLens(_)
SumLens(ls) == IF Len(ls) = 0 THEN 0 ELSE ls[1] + SumLens(Tail(ls))

\* buildManifest(files).length
buildManifest(fs) ==
    ManifestFixedLen
      + SumLens([i \in 1 .. Len(fs) |->
                    ManifestLineFixedLen + fs[i].nameLen + fs[i].statusLen])

\* buildFileSection(file, includeFullContent), file being fs[i]
buildFileSection(fs, i, includeFullContent) ==
    LET file     == fs[i]
        diffLen  == IF file.patchLen # 0 THEN file.patchLen ELSE NoDiffLen
        base     == SectionFixedLen + file.nameLen + file.statusLen + diffLen
    IN  IF includeFullContent /\ file.contentLen # 0
        THEN [file |-> i, full |-> TRUE,
              len |-> base + FullContentFixedLen + file.extLen + file.contentLen]
        ELSE IF file.contentLen # 0
        THEN [file |-> i, full |-> FALSE, len |-> base + OmittedNoteLen]
        ELSE [file |-> i, full |-> FALSE, len |-> base]

\* the comparator: estimateTokens(a.patch || '') - estimateTokens(b.patch || '')
DiffSize(fs, i) == estimateTokens(fs[i].patchLen)

RECURSIVE InsertBeforeEqual(_, _, _)
\* an insertion that puts i before the indexes of equal size
InsertBeforeEqual(fs, sorted, i) ==
    IF Len(sorted) = 0 THEN <<i>>
    ELSE IF DiffSize(fs, sorted[1]) < DiffSize(fs, i)
         THEN <<sorted[1]>> \o InsertBeforeEqual(fs, Tail(sorted), i)
    ELSE <<i>> \o sorted

RECURSIVE InsertSorted(_, _, _)
\* i put into the sorted index list after every index that is not larger
InsertSorted(fs, sorted, i) ==
    IF Len(sorted) = 0 THEN <<i>>
    ELSE IF DiffSize(fs, sorted[1]) <= DiffSize(fs, i)
         THEN <<sorted[1]>> \o InsertSorted(fs, Tail(sorted), i)
    ELSE <<i>> \o sorted

RECURSIVE SortedUpTo(_, _)
\* [...files].sort(...) of the first n files: a stable ascending sort
SortedUpTo(fs, n) ==
    IF n = 0 THEN <<>> ELSE InsertSorted(fs, SortedUpTo(fs, n - 1), n)

SortByDiffSize(fs) == SortedUpTo(fs, Len(fs))

\* one entry of fileCosts
FileCost(fs, i) ==
    LET diffSection == buildFileSection(fs, i, FALSE)
        fullSection == IF fs[i].contentLen # 0
                       THEN buildFileSection(fs, i, TRUE)
                       ELSE buildFileSection(fs, i, FALSE)
    IN  [hasContent  |-> fs[i].contentLen # 0,
         diffSection |-> diffSection,
         fullSection |-> fullSection,
         diffTokens  |-> estimateTokens(diffSection.len),
         fullTokens  |-> estimateTokens(fullSection.len)]

\* a flush that leaves the flushed sections in currentSections
FlushKeepingSections(st, manifestTokens) ==
    IF Len(st.currentSections) > 0
    THEN [st EXCEPT !.chunks = Append(@, [sections |-> st.currentSections,
                                          placeholder |-> FALSE]),
                    !.currentTokens = manifestTokens]
    ELSE st

\* a flush that emits the chunk under way even when it holds no section
FlushEvenEmpty(st, manifestTokens) ==
    [st EXCEPT !.chunks = Append(@, [sections |-> st.currentSections,
                                     placeholder |-> FALSE]),
               !.currentSections = <<>>,
               !.currentTokens = manifestTokens]

\* if (currentSections.length > 0) { chunks.push(...); currentSections = [];
\* currentTokens = manifestTokens }
FlushChunk(st, manifestTokens) ==
    IF Len(st.currentSections) > 0
    THEN [st EXCEPT !.chunks = Append(@, [sections |-> st.currentSections,
                                          placeholder |-> FALSE]),
                    !.currentSections = <<>>,
                    !.currentTokens = manifestTokens]
    ELSE st

\* a cascade without the diff-only section
TryPlaceFullOnly(st, fc, budget, onMiss) ==
    IF st.currentTokens + fc.fullTokens <= budget
    THEN [st EXCEPT !.currentSections = Append(@, fc.fullSection),
                    !.currentTokens = @ + fc.fullTokens]
    ELSE onMiss

\* the full / diff-only / neither cascade in the chunk under way; onMiss is
\* what happens when neither section fits
TryPlace(st, fc, budget, onMiss) ==
    IF st.currentTokens + fc.fullTokens <= budget
    THEN [st EXCEPT !.currentSections = Append(@, fc.fullSection),
                    !.currentTokens = @ + fc.fullTokens]
    ELSE IF st.currentTokens + fc.diffTokens <= budget
    THEN [st EXCEPT !.currentSections = Append(@, fc.diffSection),
                    !.currentTokens = @ + fc.diffTokens,
                    !.truncatedCount = IF fc.hasContent THEN @ + 1 ELSE @]
    ELSE onMiss

\* a loop body that skips a file without counting it
PlaceFileUncounted(st, fc, budget, manifestTokens) ==
    LET fresh == FlushChunk(st, manifestTokens)
    IN  TryPlace(st, fc, budget, TryPlace(fresh, fc, budget, fresh))

\* the body of the loop over fileCosts
PlaceFile(st, fc, budget, manifestTokens) ==
    LET fresh == FlushChunk(st, manifestTokens)
    IN  TryPlace(st, fc, budget,
            TryPlace(fresh, fc, budget,
                [fresh EXCEPT !.truncatedCount = @ + 1]))

RECURSIVE PackFrom(_, _, _, _, _, _)
\* the loop over fileCosts from position k of the sorted list
PackFrom(fs, sorted, k, st, budget, manifestTokens) ==
    IF k > Len(sorted) THEN st
    ELSE PackFrom(fs, sorted, k + 1,
                  PlaceFile(st, FileCost(fs, sorted[k]), budget, manifestTokens),
                  budget, manifestTokens)

\* DEFAULT_CONTEXT_WINDOW - systemTokens - RESERVED_RESPONSE
Budget(sysTokens) == DEFAULT_CONTEXT_WINDOW - sysTokens - RESERVED_RESPONSE

\* buildContext(files, config, { systemTokens }): [chunks, truncatedCount]
buildContext(fs, sysTokens) ==
    LET budget         == Budget(sysTokens)
        manifestTokens == estimateTokens(buildManifest(fs))
        packed  == PackFrom(fs, SortByDiffSize(fs), 1,
                            [chunks |-> <<>>, currentSections |-> <<>>,
                             currentTokens |-> manifestTokens,
                             truncatedCount |-> 0],
                            budget, manifestTokens)
        flushed == FlushChunk(packed, manifestTokens)
    IN  [chunks |-> IF Len(flushed.chunks) = 0
                    THEN <<[sections |-> <<>>, placeholder |-> TRUE]>>
                    ELSE flushed.chunks,
         truncatedCount |-> flushed.truncatedCount]

\* the length of the text of an emitted chunk:
\* manifest + currentSections.join('\n---\n\n'), or manifest + placeholder
ChunkTextLen(fs, chunk) ==
    buildManifest(fs)
      + (IF chunk.placeholder THEN PlaceholderLen
         ELSE SumLens([k \in 1 .. Len(chunk.sections) |-> chunk.sections[k].len])
                + SeparatorLen * (Len(chunk.sections) - 1))

---------------------------------------------------------------------------
(* The validation step of review(), src/src/review.js:317-327.             *)
(* A changed file is [filename, status, patch, ignored, contentLen]; an    *)
(* element of the parsed model response is [isNull, file, lineT, lineV,    *)
(* body]: null, or an object whose line is a number (lineT = "num"), a     *)
(* string ("str") or missing ("none"), '' standing for a missing text.     *)

\* filePatches.get(name) after filePatches.set(f.filename, f.patch) for every
\* file in order: the patch of the last file of that name, else undefined
FilePatchOf(fs, name) ==
    LET hits == {i \in 1 .. Len(fs) : fs[i].filename = name}
    IN  IF hits = {} THEN Null
        ELSE fs[CHOOSE i \in hits : \A h \in hits : h <= i].patch

\* a check that looks at the file and the body only
HasFileAndBody(c) == c.file # "" /\ c.body # ""

\* !(!c.file || !c.line || !c.body)
HasFields(c) ==
    /\ c.file # ""
    /\ (c.lineT = "num" /\ c.lineV # 0) \/ c.lineT = "str"
    /\ c.body # ""

\* a membership test that takes any line of a reviewed file
HasAnyLine(c, validLines) == c.lineT = "num" /\ validLines # {}

\* validLines.has(c.line): a Set of numbers holds no string
HasLine(c, validLines) == c.lineT = "num" /\ c.lineV \in validLines

\* the filter callback; reading c.file of null throws a TypeError
KeepsComment(c, fs) ==
    HasFields(c) /\ HasLine(c, getValidLines(FilePatchOf(fs, c.file)))

\* allComments.filter(...): [threw, comments]
ValidateComments(all, fs) ==
    LET Keep(c) == KeepsComment(c, fs)
    IN  IF \E k \in 1 .. Len(all) : all[k].isNull
        THEN [threw |-> TRUE, comments |-> <<>>]
        ELSE [threw |-> FALSE, comments |-> SelectSeq(all, Keep)]

---------------------------------------------------------------------------
(* The patches the line map is applied to *)

HdrFive == <<"@", "@", " ", "-", "5", ",", "4", " ", "+", "5", ",", "3", " ", "@", "@">>

HdrTwo == <<"@", "@", " ", "-", "1", " ", "+", "2", " ", "@", "@", " ", "f">>

HdrTen == <<"@", "@", " ", "-", "1", "0", ",", "4", " ", "+", "1", "0", ",", "6", " ", "@", "@">>

CtxLine == <<" ", "k">>

AddLine == <<"+", "b">>

DelLine == <<"-", "r">>

NoNewlineMarker == <<"\\", " ", "N">>

JunkLine == <<"x">>

\* the raw lines a generated patch is made of; the empty line is what split
\* leaves after a final newline
RawLines == {HdrFive, HdrTwo, CtxLine, AddLine, DelLine, NoNewlineMarker, JunkLine, <<>>}

\* the patches of the repository's tests (src/unnamed/part_003:11-18, 31-37, 68-73)
PatchSimple == Join(<<HdrTen, CtxLine, AddLine, AddLine, CtxLine, CtxLine>>)

PatchDeletion == Join(<<HdrFive, CtxLine, DelLine, CtxLine, CtxLine>>)

PatchNoNewline == Join(<<HdrTwo, DelLine, AddLine, NoNewlineMarker>>)

TestPatches == {PatchSimple, PatchDeletion, PatchNoNewline}

GeneratedPatches ==
    {Join(ls) : ls \in UNION {[1 .. n -> RawLines] : n \in 0 .. MaxPatchLines}}

Patches == {Null} \cup GeneratedPatches \cup TestPatches

TargetLines == 0 .. MaxTarget

\* the files buildContext is given: a.js-like names, status 'modified'
FileKinds ==
    [nameLen : {4}, statusLen : {8}, extLen : {2},
     patchLen : {0, 3, 30, 90}, contentLen : {0, 12, 200}]

FileLists == UNION {[1 .. n -> FileKinds] : n \in 0 .. MaxFiles}

\* estimateTokens(systemPrompt): the default and prompts that leave a
\* budget of 20 .. 150 tokens
SystemTokenValues ==
    {DefaultSystemTokens} \cup
    {DEFAULT_CONTEXT_WINDOW - RESERVED_RESPONSE - b : b \in {20, 60, 70, 80, 100, 150}}


HdrZero == <<"@", "@", " ", "-", "1", " ", "+", "0", ",", "0", " ", "@", "@">>

\* the patch of an emptied file, with a final newline
PatchEmptied == Join(<<HdrZero, DelLine, <<>>>>)

ChangedFile(name, status, p, ignored, contentLen) ==
    [filename |-> name, status |-> status, patch |-> p,
     ignored |-> ignored, contentLen |-> contentLen]

Comment(file, line, body) ==
    [isNull |-> FALSE, file |-> file, lineT |-> "num", lineV |-> line, body |-> body]

NullEntry ==
    [isNull |-> TRUE, file |-> "", lineT |-> "none", lineV |-> 0, body |-> ""]

\* the file lists the validation step is tried on
ValidateFileLists ==
    { <<ChangedFile("a.js", "modified", PatchSimple, FALSE, 60)>>,
      <<ChangedFile("a.js", "modified", PatchDeletion, FALSE, 60),
        ChangedFile("b.js", "added", PatchNoNewline, FALSE, 12)>>,
      <<ChangedFile("a.js", "modified", PatchSimple, FALSE, 60),
        ChangedFile("z.js", "modified", PatchEmptied, FALSE, 0),
        ChangedFile("n.bin", "modified", Null, FALSE, 0)>> }

\* what a parsed model response may hold
ValidateEntries ==
    { Comment("a.js", 10, "x"), Comment("a.js", 99, "x"), Comment("a.js", 5, "x"),
      Comment("b.js", 2, "x"), Comment("q.js", 10, "x"), Comment("n.bin", 1, "x"),
      Comment("", 10, "x"), Comment("a.js", 10, ""), Comment("z.js", 0, "x"),
      [Comment("a.js", 10, "x") EXCEPT !.lineT = "str"],
      [Comment("a.js", 0, "x") EXCEPT !.lineT = "none"],
      NullEntry }

CommentLists == UNION {[1 .. n -> ValidateEntries] : n \in 0 .. MaxComments}

---------------------------------------------------------------------------
(* The line map as a state machine: both functions applied to one patch *)

\* the locals of review() before an invocation
IdleLocal ==
    [pc |-> "idle", n |-> 0, scenario |-> 1, wmAvailable |-> TRUE,
     runRef |-> FALSE, nextRoundNum |-> 1, prevIdx |-> 0, prevReviewId |-> 0,
     filesToReview |-> <<>>, filteredCount |-> 0,
     nChunks |-> 0, truncatedCount |-> 0, chunkIdx |-> 0, chunksFailed |-> 0,
     allComments |-> <<>>, validComments |-> <<>>, round |-> FALSE,
     buffer |-> <<>>, posted |-> FALSE, posts |-> <<>>, reviewId |-> 0,
     exit |-> "",
     dismissed |-> FALSE, prevFeedback |-> 0, inFlight |-> 0,
     submitted |-> <<>>, chunkLog |-> <<>>, notice |-> "", noteCount |-> 0,
     postCalls |-> 0, postOk |-> FALSE, ghIds |-> FALSE, dismissal |-> ""]

\* the jobs of the workflow that may run review() at one time (two pushes in
\* quick succession start two), and the one job of a pull request whose
\* review events come one after the other
Procs == {1, 2}

Sequential == {1}

\* the telemetry backend without a run of this pull request
EmptyStore == [runs |-> 0, rounds |-> <<>>, outcomes |-> <<>>]

\* no run recorded, no invocation under way
ReviewIdle ==
    /\ store = EmptyStore
    /\ rv = [p \in Procs |-> IdleLocal]
    /\ hist = [started |-> 0, completed |-> 0, failed |-> FALSE,
               llmKey |-> TRUE, result |-> "", exitCode |-> 0]

\* no previous feedback collected
FeedbackIdle ==
    pf = [groups |-> <<>>, feedback |-> <<>>, rendered |-> <<>>,
          truncated |-> FALSE, len |-> 0, pc |-> "idle"]

\* the locals of reviewChunk before a call
IdleChunk ==
    [pc |-> "idle", prompt |-> 0, attempt |-> 0, requests |-> <<>>,
     delays |-> <<>>, first |-> "", prompts |-> 0, result |-> ""]

ChunkIdle == rc = IdleChunk

\* the locals of trackOutcome() before an invocation, in a job whose MODE
\* is 'review'
IdleOutcome ==
    [mode |-> "review", pc |-> "idle", merged |-> FALSE, wmKey |-> TRUE,
     lookup |-> "", activeIdx |-> 0, queried |-> FALSE, threads |-> <<>>,
     replies |-> <<>>, k |-> 0, buffer |-> <<>>, queryFailed |-> FALSE,
     flush |-> "", exit |-> ""]

OutcomeIdle == oc = IdleOutcome

\* no request to the host under way
IdleFetch ==
    [pc |-> "idle", attempt |-> 0, responses |-> <<>>, delays |-> <<>>,
     result |-> "", status |-> 0]

FetchIdle == fr = IdleFetch

\* the line map not in use
LineMapIdle ==
    /\ patch = Null
    /\ targetLine = 0
    /\ valid = {}
    /\ snippet = Null
    /\ lmPc = "idle"

\* buildContext not in use
ContextIdle ==
    /\ files = <<>>
    /\ systemTokens = DefaultSystemTokens
    /\ chunks = <<>>
    /\ truncatedCount = 0
    /\ bcPc = "idle"

\* the validation step not in use
ValidateIdle ==
    /\ vcComments = <<>>
    /\ vcFiles = <<>>
    /\ vcResult = [threw |-> FALSE, comments |-> <<>>]
    /\ vcPc = "idle"

LineMapInit ==
    /\ patch \in Patches
    /\ targetLine = 0
    /\ valid = {}
    /\ snippet = Null
    /\ lmPc = "start"
    /\ ContextIdle
    /\ ValidateIdle
    /\ ReviewIdle
    /\ FeedbackIdle
    /\ OutcomeIdle
    /\ FetchIdle
    /\ ChunkIdle

\* valid = getValidLines(patch)
CallGetValidLines ==
    /\ lmPc = "start"
    /\ valid' = getValidLines(patch)
    /\ lmPc' = "valid"
    /\ UNCHANGED <<patch, targetLine, snippet, bcVars, vcVars, rvVars, pf, rc, oc, fr>>

\* snippet = extractSnippet(patch, targetLine)
CallExtractSnippet ==
    /\ lmPc = "valid"
    /\ \E t \in TargetLines \cup valid :
          /\ targetLine' = t
          /\ snippet' = extractSnippet(patch, t)
    /\ lmPc' = "snippet"
    /\ UNCHANGED <<patch, valid, bcVars, vcVars, rvVars, pf, rc, oc, fr>>

LineMapNext == CallGetValidLines \/ CallExtractSnippet

SpecLineMap == LineMapInit /\ [][LineMapNext]_vars

---------------------------------------------------------------------------
(* buildContext as a state machine: one call on one file list *)

ContextInit ==
    /\ files \in FileLists
    /\ systemTokens \in SystemTokenValues
    /\ chunks = <<>>
    /\ truncatedCount = 0
    /\ bcPc = "start"
    /\ LineMapIdle
    /\ ValidateIdle
    /\ ReviewIdle
    /\ FeedbackIdle
    /\ OutcomeIdle
    /\ FetchIdle
    /\ ChunkIdle

\* { chunks, truncatedCount } = buildContext(files, config, { systemTokens })
CallBuildContext ==
    /\ bcPc = "start"
    /\ LET r == buildContext(files, systemTokens)
       IN  /\ chunks' = r.chunks
           /\ truncatedCount' = r.truncatedCount
    /\ bcPc' = "done"
    /\ UNCHANGED <<files, systemTokens, lmVars, vcVars, rvVars, pf, rc, oc, fr>>

ContextNext == CallBuildContext

SpecContext == ContextInit /\ [][ContextNext]_vars

---------------------------------------------------------------------------
(* The validation step as a state machine: one filter over one response *)

ValidateInit ==
    /\ vcComments \in CommentLists
    /\ vcFiles \in ValidateFileLists
    /\ vcResult = [threw |-> FALSE, comments |-> <<>>]
    /\ vcPc = "start"
    /\ LineMapIdle
    /\ ContextIdle
    /\ ReviewIdle
    /\ FeedbackIdle
    /\ OutcomeIdle
    /\ FetchIdle
    /\ ChunkIdle

\* validComments = allComments.filter(...)
CallValidate ==
    /\ vcPc = "start"
    /\ vcResult' = ValidateComments(vcComments, vcFiles)
    /\ vcPc' = "done"
    /\ UNCHANGED <<vcComments, vcFiles, lmVars, bcVars, rvVars, pf, rc, oc, fr>>

ValidateNext == CallValidate

SpecValidate == ValidateInit /\ [][ValidateNext]_vars

---------------------------------------------------------------------------
(* review(), src/src/review.js:135-391, and the telemetry backend it talks *)
(* to.  The calls run, group, call, outcome and act of @warpmetrics/warp   *)
(* put an event into the invocation's buffer; flush() sends the buffer to  *)
(* the backend, which findRun (src/unnamed/part_001) reads.  An event is   *)
(* [ev, num, text]; an outcome's num is the index of the round it is for   *)
(* among the run's groups, 0 for the round this invocation created.        *)

Event(ev, num, text) == [ev |-> ev, num |-> num, text |-> text, id |-> 0, opt |-> ""]

NewRound(num, sha) ==
    [round |-> num, sha |-> sha, superseded |-> 0, outcomes |-> <<>>,
     reviewId |-> 0, comments |-> <<>>]

\* the backend taking one event; newIdx is the round group of this buffer
ApplyEvent(acc, e) ==
    LET st  == acc.store
        tgt == IF e.num = 0 THEN acc.newIdx ELSE e.num
    IN  CASE e.ev = "run" ->
               [acc EXCEPT !.store.runs = @ + 1]
          [] e.ev = "round" ->
               [acc EXCEPT !.store.rounds = Append(@, NewRound(e.num, e.text)),
                           !.newIdx = Len(st.rounds) + 1]
          [] e.ev = "outcome" /\ e.text = "Superseded" ->
               [acc EXCEPT !.store.rounds[tgt].superseded = @ + 1]
          [] e.ev = "outcome" /\ e.text # "Superseded" ->
               [acc EXCEPT !.store.rounds[tgt].outcomes = Append(@, e.text)]
          [] e.ev = "comment" ->
               [acc EXCEPT !.store.rounds[acc.newIdx].comments =
                               Append(@, [file |-> e.text, line |-> e.num,
                                          ghId |-> e.id, outcomes |-> <<>>])]
          [] e.ev = "runOutcome" ->
               [acc EXCEPT !.store.outcomes = Append(@, e.text)]
          [] e.ev = "commentOutcome" ->
               [acc EXCEPT !.store.rounds[e.num].comments[e.id].outcomes =
                               Append(@, [name |-> e.text, reason |-> e.opt])]
          [] e.ev = "summary" ->
               [acc EXCEPT !.store.rounds[acc.newIdx].reviewId = e.num]
          [] OTHER -> acc

RECURSIVE ApplyFrom(_, _, _)
ApplyFrom(acc, buffer, k) ==
    IF k > Len(buffer) THEN acc
    ELSE ApplyFrom(ApplyEvent(acc, buffer[k]), buffer, k + 1)

\* the backend after a flush of the buffer
Flushed(st, buffer) == ApplyFrom([store |-> st, newIdx |-> 0], buffer, 1).store

\* a choice of the round with the lowest number
LowestRoundIdx(rounds) ==
    IF Len(rounds) = 0 THEN 0
    ELSE CHOOSE i \in 1 .. Len(rounds) :
            \A j \in 1 .. Len(rounds) :
                \/ rounds[i].round < rounds[j].round
                \/ (rounds[i].round = rounds[j].round /\ i <= j)

\* rounds.sort((a, b) => b.opts.round - a.opts.round)[0]: the round with the
\* highest number (the first of them in the run's order), 0 when there is none
PrevRoundIdx(rounds) ==
    IF Len(rounds) = 0 THEN 0
    ELSE CHOOSE i \in 1 .. Len(rounds) :
            \A j \in 1 .. Len(rounds) :
                \/ rounds[i].round > rounds[j].round
                \/ (rounds[i].round = rounds[j].round /\ i <= j)

\* step 6: drop removed files and files an ignore pattern matches
FilterFiles(fs) ==
    LET Kept(f) == f.status # "removed" /\ ~f.ignored
    IN  SelectSeq(fs, Kept)

\* filtered.slice(0, config.maxFilesPerReview || 15)
SliceFiles(fs, maxFilesPerReview) ==
    SubSeq(fs, 1, Min(Len(fs), IF maxFilesPerReview # 0 THEN maxFilesPerReview ELSE 15))

\* 'a.js'.split('.').pop().length
ExtLen(name) ==
    LET dots == {i \in 1 .. Len(name) : SubSeq(name, i, i) = "."}
    IN  IF dots = {} THEN Len(name)
        ELSE Len(name) - (CHOOSE i \in dots : \A d \in dots : d <= i)

\* the lengths buildContext sees of a file whose content was fetched or not
Sized(f, contentFetched) ==
    [nameLen |-> Len(f.filename), statusLen |-> Len(f.status),
     extLen |-> ExtLen(f.filename),
     patchLen |-> IF f.patch = Null THEN 0 ELSE Len(f.patch),
     contentLen |-> IF contentFetched THEN f.contentLen ELSE 0]

\* the locals after the throw of an awaited call inside the try block
Thrown(l) == [l EXCEPT !.pc = "flush", !.exit = "threw"]

\* outcome(prevRound.id, 'Superseded'); runRef = runDetail.id
SupersedePrev(l) ==
    [l EXCEPT !.buffer = Append(@, Event("outcome", l.prevIdx, "Superseded")),
              !.runRef = TRUE,
              !.pc = "fetchFiles"]


\* estimateTokens(systemPrompt): the default skills, and a prompt so long
\* that one file fills a chunk
ReviewSystemTokens == {DefaultSystemTokens, DEFAULT_CONTEXT_WINDOW - RESERVED_RESPONSE - 100}

\* what the model answers for a chunk
ReviewResponses ==
    { <<>>,
      <<Comment("a.js", 5, "x"), Comment("b.js", 2, "x")>>,
      <<Comment("a.js", 99, "x"), Comment("q.js", 10, "x")>>,
      <<NullEntry>> }

\* how reviewChunk ends: the answer parsed at once, after the retry for
\* invalid JSON, the retry failing too, or llmWithRetry throwing
ChunkResults ==
    [kind : {"parsed"}, comments : ReviewResponses] \cup
    [kind : {"retried"}, comments : {<<Comment("a.js", 5, "x"), Comment("b.js", 2, "x")>>}] \cup
    [kind : {"retryFailed", "oversize", "unreachable"}, comments : {<<>>}]

\* the answers of a model that does not keep to 'Maximum 5 comments per
\* file' (src/src/prompt.js:57), or is unreachable
VerboseResults ==
    [kind : {"parsed"},
     comments : { <<>>,
                  <<Comment("a.js", 10, "x"), Comment("a.js", 11, "x"),
                    Comment("a.js", 12, "x"), Comment("a.js", 13, "x"),
                    Comment("a.js", 14, "x"), Comment("a.js", 11, "y")>> }] \cup
    [kind : {"unreachable"}, comments : {<<>>}]

\* the pull request at its head revisions, with the configuration and the
\* sizes of the system prompt (skills, title, body, previous feedback) read
\* at each, and what the model may answer
Scenarios ==
    << [sha |-> "sha1", maxFilesPerReview |-> 0, systemTokens |-> {DefaultSystemTokens},
        results |-> ChunkResults,
        files |-> <<ChangedFile("a.js", "modified", PatchSimple, FALSE, 60),
                    ChangedFile("b.js", "added", PatchNoNewline, FALSE, 12),
                    ChangedFile("y.lock", "modified", PatchDeletion, TRUE, 200)>>],
       [sha |-> "sha2", maxFilesPerReview |-> 1, systemTokens |-> {DefaultSystemTokens},
        results |-> ChunkResults,
        files |-> <<ChangedFile("c.js", "removed", PatchDeletion, FALSE, 0),
                    ChangedFile("a.js", "modified", PatchDeletion, FALSE, 60),
                    ChangedFile("b.js", "added", PatchNoNewline, FALSE, 12)>>],
       [sha |-> "sha3", maxFilesPerReview |-> 0, systemTokens |-> ReviewSystemTokens,
        results |-> ChunkResults,
        files |-> <<ChangedFile("a.js", "modified", PatchSimple, FALSE, 60),
                    ChangedFile("b.js", "added", PatchNoNewline, FALSE, 12),
                    ChangedFile("d.js", "added", PatchNoNewline, FALSE, 12)>>],
       [sha |-> "sha4", maxFilesPerReview |-> 0, systemTokens |-> {DefaultSystemTokens},
        results |-> VerboseResults,
        files |-> <<ChangedFile("a.js", "modified", PatchSimple, FALSE, 60)>>] >>

\* the revisions of a pull request that grows by small commits, and the
\* revision of one so large that its review is split into three passes
SmallScenarios == {1, 2}
SplitScenarios == {3}

\* the revision whose review the model answers at length
VerboseScenarios == {4}

\* the files an invocation on a revision reviews
ReviewedFiles(sc) == SliceFiles(FilterFiles(sc.files), sc.maxFilesPerReview)

ScenarioOfSha(sha) == CHOOSE k \in 1 .. Len(Scenarios) : Scenarios[k].sha = sha

RECURSIVE CommentEvents(_, _, _)
\* group(round, `${c.file}:${c.line}`, {..., github_comment_id: commentIds[i]
\* || null}) for validComments[k..]; the id of the k-th comment of a review is
\* k, and 0 stands for null
CommentEvents(cs, k, ids) ==
    IF k > Len(cs) THEN <<>>
    ELSE <<[Event("comment", cs[k].lineV, cs[k].file) EXCEPT
               !.id = IF ids THEN k ELSE 0]>>
         \o CommentEvents(cs, k + 1, ids)

\* step 16: the comment groups and the _summary group of the round
LogComments(l) ==
    IF l.round
    THEN [l EXCEPT !.buffer = @ \o CommentEvents(l.validComments, 1, l.ghIds)
                                \o <<Event("summary", l.reviewId, "")>>,
                   !.pc = "flush", !.exit = "ok"]
    ELSE [l EXCEPT !.pc = "flush", !.exit = "ok"]

\* an outcome that does not look at the comments
OutcomeAlwaysApproved(hasIssues) == "Approved"

\* hasIssues ? 'Changes Requested' : 'Approved'
OutcomeName(hasIssues) == IF hasIssues THEN "Changes Requested" ELSE "Approved"

\* the loop's end never taken for the failure of every chunk
NeverAllFailed(l) == FALSE

\* if (chunksFailed === chunks.length)
AllChunksFailed(l) == l.chunksFailed = l.nChunks

\* steps 12 and 13, reached when the chunk loop ends
ValidateAndLog(l) ==
    LET v == ValidateComments(l.allComments, l.filesToReview)
        hasIssues == Len(v.comments) > 0
        logged == <<Event("outcome", 0, OutcomeName(hasIssues)),
                    Event("act", 0, IF hasIssues THEN "Revise" ELSE "Merge")>>
    IN  IF AllChunksFailed(l)
        THEN [l EXCEPT !.notice = "oversize", !.pc = "postError"]
        ELSE IF v.threw THEN Thrown(l)
        ELSE [l EXCEPT !.validComments = v.comments,
                       !.buffer = IF l.round THEN @ \o logged ELSE @,
                       !.pc = "post"]

\* the end of one pass of the chunk loop
NextChunk(l) ==
    IF l.chunkIdx = l.nChunks THEN ValidateAndLog(l) ELSE l

\* a run created whether or not the telemetry store is available
CreateRunAlways(l) ==
    [l EXCEPT !.buffer = Append(@, Event("run", 0, "Code Review")),
              !.runRef = TRUE, !.pc = "fetchFiles"]

\* no runDetail: if (wmAvailable) runRef = run('Code Review', runOpts)
CreateRun(l) ==
    IF l.wmAvailable
    THEN [l EXCEPT !.buffer = Append(@, Event("run", 0, "Code Review")),
                   !.runRef = TRUE, !.pc = "fetchFiles"]
    ELSE [l EXCEPT !.pc = "fetchFiles"]

\* previousFeedback.length: the rounds of the run that hold a comment group
FeedbackRounds(rounds) ==
    Cardinality({i \in 1 .. Len(rounds) : Len(rounds[i].comments) > 0})

\* what findRun returned decides step 4
HandleReReview(l, st) ==
    LET idx == PrevRoundIdx(st.rounds)
        fed == [l EXCEPT !.prevFeedback = FeedbackRounds(st.rounds)]
    IN  IF st.runs = 0
        THEN CreateRun(l)
        ELSE IF idx = 0
        THEN [fed EXCEPT !.runRef = TRUE, !.pc = "fetchFiles"]
        ELSE LET found == [fed EXCEPT !.nextRoundNum = st.rounds[idx].round + 1,
                                      !.prevIdx = idx,
                                      !.prevReviewId = st.rounds[idx].reviewId]
             IN  IF found.prevReviewId # 0
                 THEN [found EXCEPT !.pc = "dismiss"]
                 ELSE SupersedePrev(found)

ReviewInit ==
    /\ ReviewIdle
    /\ FeedbackIdle
    /\ OutcomeIdle
    /\ FetchIdle
    /\ ChunkIdle
    /\ LineMapIdle
    /\ ContextIdle
    /\ ValidateIdle

\* a review that goes on without the credential of the model
KeyNeverMissing(llmKey) == FALSE

\* if (!process.env.LLM_API_KEY)
KeyMissing(llmKey) == ~llmKey

\* steps 1 and 2: review(ctx) is called; without LLM_API_KEY it returns
StartOn(p, scenarios, maxStarted) ==
    /\ oc.mode = "review"
    /\ rv[p].pc = "idle"
    /\ hist.started < maxStarted
    /\ \E s \in scenarios, llmKey \in BOOLEAN :
        IF ~KeyMissing(llmKey)
        THEN /\ rv' = [rv EXCEPT ![p] = [IdleLocal EXCEPT !.pc = "findRun",
                                                          !.n = hist.started + 1,
                                                          !.scenario = s]]
             /\ hist' = [hist EXCEPT !.started = @ + 1, !.llmKey = llmKey,
                                     !.result = "", !.exitCode = 0]
        ELSE /\ rv' = rv
             /\ hist' = [hist EXCEPT !.started = @ + 1, !.completed = @ + 1,
                                     !.failed = TRUE, !.llmKey = FALSE,
                                     !.result = "returned", !.exitCode = 1]
    /\ UNCHANGED <<store, lmVars, bcVars, vcVars, pf, rc, oc, fr>>

Start(p) == StartOn(p, SmallScenarios, MaxInvocations)

\* review(ctx) on the pull request whose review is split
StartSplit(p) == StartOn(p, SplitScenarios, MaxSplitInvocations)

\* steps 3 and 4 up to the first await after findRun
FindRun(p) ==
    /\ rv[p].pc = "findRun"
    /\ \E r \in {"nokey", "throws", "found"} :
        IF r = "found"
        THEN /\ rv' = [rv EXCEPT ![p] = HandleReReview(rv[p], store)]
             /\ hist' = hist
        ELSE /\ rv' = [rv EXCEPT ![p] = CreateRun([@ EXCEPT !.wmAvailable = FALSE])]
             /\ hist' = [hist EXCEPT !.failed = TRUE]
    /\ UNCHANGED <<store, lmVars, bcVars, vcVars, pf, rc, oc, fr>>

\* the host's answers to the dismissal: accepted, a status that is not OK,
\* or fetch rejecting
DismissResults == {"ok", "notOk", "rejected"}

\* a dismissal whose failure leaves review()
AfterDismissThrowing(l, r) ==
    IF r = "ok"
    THEN SupersedePrev([l EXCEPT !.dismissed = TRUE, !.dismissal = r])
    ELSE Thrown([l EXCEPT !.dismissed = TRUE, !.dismissal = r])

\* dismissReview warns of a status that is not OK and catches what fetch
\* throws: it always returns, and the outcome of the previous round follows
AfterDismiss(l, r) ==
    SupersedePrev([l EXCEPT !.dismissed = TRUE, !.dismissal = r])

\* await dismissReview(owner, repo, pr, prevReviewId, headSha)
Dismiss(p) ==
    /\ rv[p].pc = "dismiss"
    /\ \E r \in DismissResults : rv' = [rv EXCEPT ![p] = AfterDismiss(@, r)]
    /\ UNCHANGED <<store, hist, lmVars, bcVars, vcVars, pf, rc, oc, fr>>

\* steps 5 and 6
FetchFiles(p) ==
    /\ rv[p].pc = "fetchFiles"
    /\ \E ok \in BOOLEAN :
        LET sc == Scenarios[rv[p].scenario]
        IN  rv' = [rv EXCEPT ![p] =
                      IF ok
                      THEN [@ EXCEPT !.filesToReview = ReviewedFiles(sc),
                                     !.filteredCount = Len(FilterFiles(sc.files)),
                                     !.pc = "fetchContent"]
                      ELSE Thrown(@)]
    /\ UNCHANGED <<store, hist, lmVars, bcVars, vcVars, pf, rc, oc, fr>>

\* steps 7 to 10
FetchContent(p) ==
    /\ rv[p].pc = "fetchContent"
    /\ \E r \in {"fetched", "none", "throws"},
          st \in Scenarios[rv[p].scenario].systemTokens :
        LET l  == rv[p]
            fs == [k \in 1 .. Len(l.filesToReview) |->
                      Sized(l.filesToReview[k], r = "fetched")]
            bc == buildContext(fs, st)
        IN  rv' = [rv EXCEPT ![p] =
                      IF r = "throws" THEN Thrown(l)
                      ELSE NextChunk(
                           [l EXCEPT !.nChunks = Len(bc.chunks),
                                     !.truncatedCount = bc.truncatedCount,
                                     !.round = l.runRef,
                                     !.buffer = IF l.runRef
                                                THEN Append(@, Event("round", l.nextRoundNum,
                                                                     Scenarios[l.scenario].sha))
                                                ELSE @,
                                     !.pc = "reviewChunk"])]
    /\ UNCHANGED <<store, hist, lmVars, bcVars, vcVars, pf, rc, oc, fr>>

\* the next chunk handed to the model before the last call has settled
AfterSubmitNoAwait == "reviewChunk"

\* await reviewChunk(...): the loop is suspended until the call settles
AfterSubmit == "awaitChunk"

\* step 11: reviewChunk(anthropic, config, systemPrompt, chunks[i], round)
\* is called for the next chunk of the loop
SubmitChunk(p) ==
    /\ rv[p].pc = "reviewChunk"
    /\ rv[p].chunkIdx + rv[p].inFlight < rv[p].nChunks
    /\ rv' = [rv EXCEPT ![p] =
                 [@ EXCEPT !.inFlight = @ + 1,
                           !.submitted = Append(@, rv[p].chunkIdx + rv[p].inFlight + 1),
                           !.pc = AfterSubmit]]
    /\ UNCHANGED <<store, hist, lmVars, bcVars, vcVars, pf, rc, oc, fr>>

\* step 11: the call settles, and steps 12 and 13 after the last chunk
ReviewChunk(p) ==
    /\ rv[p].pc = "awaitChunk"
    /\ \E r \in Scenarios[rv[p].scenario].results :
        LET l == [rv[p] EXCEPT !.inFlight = @ - 1,
                               !.chunkLog = Append(@, r),
                               !.pc = "reviewChunk"]
            calls == IF ~l.round THEN <<>>
                     ELSE IF r.kind = "retried"
                     THEN <<Event("call", 0, ""), Event("call", 0, "")>>
                     ELSE <<Event("call", 0, "")>>
        IN  rv' = [rv EXCEPT ![p] =
                      CASE r.kind = "unreachable" ->
                              [l EXCEPT !.notice = "unreachable", !.pc = "postError"]
                        [] r.kind = "oversize" ->
                              NextChunk([l EXCEPT !.chunksFailed = @ + 1,
                                                  !.chunkIdx = @ + 1])
                        [] OTHER ->
                              NextChunk([l EXCEPT !.buffer = @ \o calls,
                                                  !.allComments = @ \o r.comments,
                                                  !.chunkIdx = @ + 1])]
    /\ UNCHANGED <<store, hist, lmVars, bcVars, vcVars, pf, rc, oc, fr>>

\* the truncation note counting the truncated files only
SummaryTruncatedFilesOnly(l) == l.truncatedCount

\* buildSummary(..., {truncatedCount: truncatedCount + chunksFailed}): the
\* number in 'Context was truncated for N large file(s).', 0 for no note
SummaryTruncated(l) == l.truncatedCount + l.chunksFailed

\* postReview of an error summary, then return
PostError(p) ==
    /\ rv[p].pc = "postError"
    /\ \E ok \in BOOLEAN :
        rv' = [rv EXCEPT ![p] = [@ EXCEPT !.posted = TRUE, !.posts = <<>>,
                                          !.postCalls = @ + 1, !.postOk = ok,
                                          !.pc = "flush",
                                          !.exit = IF ok THEN "error" ELSE "threw"]]
    /\ UNCHANGED <<store, hist, lmVars, bcVars, vcVars, pf, rc, oc, fr>>

\* step 14, and step 16 when there is no comment to look up
Post(p) ==
    /\ rv[p].pc = "post"
    /\ \E ok \in BOOLEAN :
        LET l == [rv[p] EXCEPT !.posted = TRUE, !.posts = rv[p].validComments,
                               !.postCalls = @ + 1, !.postOk = ok,
                               !.noteCount = SummaryTruncated(rv[p])]
        IN  rv' = [rv EXCEPT ![p] =
                      IF ~ok THEN Thrown(l)
                      ELSE IF Len(l.validComments) > 0
                      THEN [l EXCEPT !.reviewId = l.n, !.pc = "commentIds"]
                      ELSE LogComments([l EXCEPT !.reviewId = l.n])]
    /\ UNCHANGED <<store, hist, lmVars, bcVars, vcVars, pf, rc, oc, fr>>

\* step 15 (a failure of getReviewCommentIds is caught and leaves
\* commentIds empty) and step 16
CommentIds(p) ==
    /\ rv[p].pc = "commentIds"
    /\ \E ok \in BOOLEAN :
        rv' = [rv EXCEPT ![p] = LogComments([@ EXCEPT !.ghIds = ok])]
    /\ UNCHANGED <<store, hist, lmVars, bcVars, vcVars, pf, rc, oc, fr>>

\* a failure of flush() reaching the caller
RejectsOnFlushFailure(l, flushOk) == l.exit = "threw" \/ ~flushOk

\* review() rejects when an awaited call threw inside the try block (the
\* catch around flush() keeps its failure in); main().catch then sets
\* process.exitCode = 1
Rejects(l, flushOk) == l.exit = "threw"

\* finally: flush(); a failure is caught and the events are lost
Flush(p) ==
    /\ rv[p].pc = "flush"
    /\ \E ok \in BOOLEAN :
        /\ store' = IF ok THEN Flushed(store, rv[p].buffer) ELSE store
        /\ hist' = [hist EXCEPT !.completed = @ + 1,
                                !.failed = @ \/ ~ok \/ rv[p].exit # "ok",
                                !.result = IF Rejects(rv[p], ok) THEN "raised"
                                           ELSE "returned",
                                !.exitCode = IF Rejects(rv[p], ok) THEN 1 ELSE 0]
    /\ rv' = [rv EXCEPT ![p] = IdleLocal]
    /\ UNCHANGED <<lmVars, bcVars, vcVars, pf, rc, oc, fr>>

ReviewNext ==
    \E p \in Sequential :
        \/ Start(p)
        \/ FindRun(p)
        \/ Dismiss(p)
        \/ FetchFiles(p)
        \/ FetchContent(p)
        \/ SubmitChunk(p)
        \/ ReviewChunk(p)
        \/ PostError(p)
        \/ Post(p)
        \/ CommentIds(p)
        \/ Flush(p)

SpecReview == ReviewInit /\ [][ReviewNext]_vars

\* the review of the pull request whose diff needs three passes
SplitNext ==
    \E p \in Sequential :
        \/ StartSplit(p)
        \/ FindRun(p)
        \/ Dismiss(p)
        \/ FetchFiles(p)
        \/ FetchContent(p)
        \/ SubmitChunk(p)
        \/ ReviewChunk(p)
        \/ PostError(p)
        \/ Post(p)
        \/ CommentIds(p)
        \/ Flush(p)

SpecSplit == ReviewInit /\ [][SplitNext]_vars

\* review(ctx) on the pull request that draws many comments
StartVerbose(p) == StartOn(p, VerboseScenarios, MaxVerboseInvocations)

VerboseNext ==
    \E p \in Sequential :
        \/ StartVerbose(p)
        \/ FindRun(p)
        \/ Dismiss(p)
        \/ FetchFiles(p)
        \/ FetchContent(p)
        \/ SubmitChunk(p)
        \/ ReviewChunk(p)
        \/ PostError(p)
        \/ Post(p)
        \/ CommentIds(p)
        \/ Flush(p)

SpecVerbose == ReviewInit /\ [][VerboseNext]_vars

\* two jobs for the same pull request, their steps interleaved at the awaits
RaceNext ==
    \E p \in Procs :
        \/ StartVerbose(p)
        \/ FindRun(p)
        \/ Dismiss(p)
        \/ FetchFiles(p)
        \/ FetchContent(p)
        \/ SubmitChunk(p)
        \/ ReviewChunk(p)
        \/ PostError(p)
        \/ Post(p)
        \/ CommentIds(p)
        \/ Flush(p)

SpecRace == ReviewInit /\ [][RaceNext]_vars

---------------------------------------------------------------------------
(* trackOutcome(), src/bin/init.js:185-248, which main() (src/src/index.js) *)
(* runs when MODE is 'outcome', in the job of a closed pull request.  It    *)
(* reads the run with findRun, buffers the outcomes of the run, of its      *)
(* active round and of that round's comment groups, and flushes.  A comment *)
(* outcome is the event [ev |-> "commentOutcome", num |-> the round's       *)
(* index, id |-> the group's index in the round, text |-> its name, opt |-> *)
(* "reply" when the latest reply is attached as reason].                    *)

\* the closings of the pull request that are followed
MaxCloses == 2

\* what findRun returns for the run after the invocations of review() whose
\* buffers were flushed; each buffer is what review() buffers in one run
StoreAfter(buffers) ==
    LET RECURSIVE After(_)
        After(n) == IF n = 0 THEN EmptyStore
                    ELSE Flushed(After(n - 1), buffers[n])
    IN  After(Len(buffers))

\* the buffer of an invocation of review() that created round num with the
\* valid comments cs, after superseding the round at index prev (0: none,
\* and the run is created); ids: whether the comment ids were obtained
RoundBuffer(prev, num, sha, cs, ids) ==
    (IF prev = 0 THEN <<Event("run", 0, "Code Review")>>
     ELSE <<Event("outcome", prev, "Superseded")>>)
    \o <<Event("round", num, sha), Event("call", 0, ""),
         Event("outcome", 0, OutcomeName(Len(cs) > 0)),
         Event("act", 0, IF Len(cs) > 0 THEN "Revise" ELSE "Merge")>>
    \o CommentEvents(cs, 1, ids)
    \o <<Event("summary", num, "")>>

\* the run when the pull request is closed: none; one round with two
\* comments; the same without comment ids; a superseded round and its
\* successor; a round superseded by an invocation that failed before it
\* created the next; a run whose first invocation created no round
OutcomeStores ==
    LET two == <<Comment("a.js", 10, "x"), Comment("b.js", 2, "x")>>
        one == <<Comment("a.js", 5, "x")>>
    IN  { EmptyStore,
          StoreAfter(<< RoundBuffer(0, 1, "sha1", two, TRUE) >>),
          StoreAfter(<< RoundBuffer(0, 1, "sha1", two, FALSE) >>),
          StoreAfter(<< RoundBuffer(0, 1, "sha1", two, TRUE),
                        RoundBuffer(1, 2, "sha2", one, TRUE) >>),
          StoreAfter(<< RoundBuffer(0, 1, "sha1", two, TRUE),
                        <<Event("outcome", 1, "Superseded")>> >>),
          StoreAfter(<< <<Event("run", 0, "Code Review")>> >>) }

\* runDetail.groups.filter(g => g.opts?.round).sort((a, b) => b.opts.round -
\* a.opts.round).find(g => !g.outcomes?.some(o => o.name === 'Superseded')):
\* the round of the highest number among those without a Superseded outcome,
\* 0 when there is none
ActiveRoundIdx(rounds) ==
    LET live == {i \in 1 .. Len(rounds) : rounds[i].superseded = 0}
    IN  IF live = {} THEN 0
        ELSE CHOOSE i \in live :
                \A j \in live :
                    \/ rounds[i].round > rounds[j].round
                    \/ (rounds[i].round = rounds[j].round /\ i <= j)

\* what buildThreadMap returns for the comment groups of a round: per group
\* its thread resolved, unresolved ("open"), or not among the threads
ThreadMaps(n) == [1 .. n -> {"resolved", "open", "absent"}]

\* an outcome for every comment group, with or without a comment id
HasCommentIdAlways(c) == TRUE

\* const commentId = commentGroup.opts?.github_comment_id;
\* if (!commentId) continue;
HasCommentId(c) == c.ghId # 0

RECURSIVE NextGroup(_, _)
\* the for loop up to the next await: the groups without a comment id are
\* passed over; after the last group the finally block is entered
NextGroup(l, st) ==
    LET cs == st.rounds[l.activeIdx].comments
    IN  IF l.k + 1 > Len(cs) THEN [l EXCEPT !.k = @ + 1, !.pc = "flush"]
        ELSE IF HasCommentId(cs[l.k + 1])
        THEN [l EXCEPT !.k = @ + 1, !.pc = "thread"]
        ELSE NextGroup([l EXCEPT !.k = @ + 1], st)

\* getThreadStatus and lines 232-238: 'Accepted' for a resolved thread, else
\* 'Ignored'; the replies are fetched for an unresolved thread of the map
\* only, and the latest one is the reason
ThreadOutcome(status, reply) ==
    IF status = "resolved" THEN [name |-> "Accepted", reason |-> ""]
    ELSE [name |-> "Ignored", reason |-> IF status = "open" THEN reply ELSE ""]

\* await buildThreadMap(owner, repo, pr) stands in a try block that has a
\* finally and no catch: trackOutcome rejects when the thread query threw
\* (the catch around flush() keeps its failure in), and main().catch then
\* sets process.exitCode = 1
TrackRejects(l, flushOk) == l.queryFailed

\* a run taken as found whatever findRun returned
RunNeverMissing(st) == FALSE

\* if (!runDetail) return
RunMissing(st) == st.runs = 0

OutcomeInit ==
    /\ FetchIdle
    /\ store \in OutcomeStores
    /\ rv = [p \in Procs |-> IdleLocal]
    /\ hist = [started |-> 0, completed |-> 0, failed |-> FALSE,
               llmKey |-> TRUE, result |-> "", exitCode |-> 0]
    /\ oc = [IdleOutcome EXCEPT !.mode = "outcome"]
    /\ FeedbackIdle
    /\ ChunkIdle
    /\ LineMapIdle
    /\ ContextIdle
    /\ ValidateIdle

\* step 1 up to the await of findRun: without WARPMETRICS_API_KEY it returns
TrackStart ==
    /\ oc.mode = "outcome"
    /\ oc.pc \in {"idle", "done"}
    /\ hist.started < MaxCloses
    /\ \E merged \in BOOLEAN, wmKey \in BOOLEAN :
        LET l == [IdleOutcome EXCEPT !.mode = "outcome", !.merged = merged,
                                     !.wmKey = wmKey]
        IN  IF wmKey
            THEN /\ oc' = [l EXCEPT !.pc = "findRun"]
                 /\ hist' = [hist EXCEPT !.started = @ + 1, !.result = "",
                                         !.exitCode = 0]
            ELSE /\ oc' = [l EXCEPT !.pc = "done", !.exit = "returned"]
                 /\ hist' = [hist EXCEPT !.started = @ + 1, !.completed = @ + 1,
                                         !.result = "returned", !.exitCode = 0]
    /\ UNCHANGED <<store, rv, lmVars, bcVars, vcVars, pf, rc, fr>>

\* steps 1 to 5 from the return of findRun up to the await of buildThreadMap
TrackFindRun ==
    /\ oc.pc = "findRun"
    /\ \E r \in {"throws", "answers"} :
        LET active == ActiveRoundIdx(store.rounds)
            found  == [oc EXCEPT !.lookup = "found",
                                 !.buffer = <<Event("runOutcome", 0,
                                                    IF oc.merged THEN "Merged"
                                                    ELSE "Closed")>>]
        IN  IF r = "throws" \/ RunMissing(store)
            THEN /\ oc' = [oc EXCEPT !.lookup = IF r = "throws" THEN "throws"
                                                ELSE "none",
                                     !.pc = "done", !.exit = "returned"]
                 /\ hist' = [hist EXCEPT !.completed = @ + 1,
                                         !.failed = @ \/ r = "throws",
                                         !.result = "returned"]
            ELSE /\ oc' = IF active = 0 THEN [found EXCEPT !.pc = "flush"]
                          ELSE [found EXCEPT
                                   !.activeIdx = active,
                                   !.buffer = Append(@, Event("outcome", active,
                                                              "Active")),
                                   !.pc = "threads"]
                 /\ hist' = hist
    /\ UNCHANGED <<store, rv, lmVars, bcVars, vcVars, pf, rc, fr>>

\* step 6: buildThreadMap returns or throws, and the loop up to its first await
TrackThreads ==
    /\ oc.pc = "threads"
    /\ \E ok \in BOOLEAN :
        \E map \in ThreadMaps(Len(store.rounds[oc.activeIdx].comments)) :
            LET l == [oc EXCEPT !.queried = TRUE]
            IN  oc' = IF ok THEN NextGroup([l EXCEPT !.threads = map], store)
                      ELSE [l EXCEPT !.queryFailed = TRUE, !.pc = "flush"]
    /\ UNCHANGED <<store, rv, hist, lmVars, bcVars, vcVars, pf, rc, fr>>

\* step 6: getThreadStatus returns for group k (a failure to fetch the
\* replies is caught and leaves no reply), its outcome, and the loop up to
\* its next await
TrackComment ==
    /\ oc.pc = "thread"
    /\ \E reply \in {"", "reply"} :
        LET o == ThreadOutcome(oc.threads[oc.k], reply)
            e == [Event("commentOutcome", oc.activeIdx, o.name) EXCEPT
                     !.id = oc.k, !.opt = o.reason]
        IN  oc' = NextGroup([oc EXCEPT !.buffer = Append(@, e),
                                       !.replies = Append(@, [k |-> oc.k, reply |-> reply])],
                            store)
    /\ UNCHANGED <<store, rv, hist, lmVars, bcVars, vcVars, pf, rc, fr>>

\* step 7: finally: flush(); a failure is caught and the events are lost
TrackFlush ==
    /\ oc.pc = "flush"
    /\ \E ok \in BOOLEAN :
        LET raised == TrackRejects(oc, ok)
        IN  /\ store' = IF ok THEN Flushed(store, oc.buffer) ELSE store
            /\ oc' = [oc EXCEPT !.flush = IF ok THEN "ok" ELSE "failed",
                                !.exit = IF raised THEN "raised" ELSE "returned",
                                !.pc = "done"]
            /\ hist' = [hist EXCEPT !.completed = @ + 1,
                                    !.failed = @ \/ ~ok \/ raised,
                                    !.result = IF raised THEN "raised" ELSE "returned",
                                    !.exitCode = IF raised THEN 1 ELSE 0]
    /\ UNCHANGED <<rv, lmVars, bcVars, vcVars, pf, rc, fr>>

OutcomeNext ==
    \/ TrackStart
    \/ TrackFindRun
    \/ TrackThreads
    \/ TrackComment
    \/ TrackFlush

SpecOutcome == OutcomeInit /\ [][OutcomeNext]_vars

\* main(), src/src/index.js:31-43: review() in a job whose MODE is 'review',
\* trackOutcome() in a job whose MODE is 'outcome'
MainInit == ReviewInit \/ OutcomeInit

MainNext == SplitNext \/ OutcomeNext

SpecMain == MainInit /\ [][MainNext]_vars

\* the next event of the pull request starts a job of the other MODE: a
\* close after pushes, or a push after a reopen
NextJob ==
    /\ \A p \in Procs : rv[p].pc = "idle"
    /\ oc.pc \in {"idle", "done"}
    /\ oc' = [IdleOutcome EXCEPT
                 !.mode = IF oc.mode = "review" THEN "outcome" ELSE "review"]
    /\ UNCHANGED <<store, rv, hist, lmVars, bcVars, vcVars, pf, rc, fr>>

\* the jobs of one pull request over its life, one at a time
LifeNext == ReviewNext \/ OutcomeNext \/ NextJob

SpecLife == MainInit /\ [][LifeNext]_vars

---------------------------------------------------------------------------
(* The previous feedback: review.js:184-196 collects it from the run's     *)
(* round groups, buildPreviousFeedbackSection (src/src/prompt.js:1-31)     *)
(* renders it.  Texts enter through their lengths: a comment is [fileLen,  *)
(* lineDigits, categoryLen, bodyLen], 0 standing for a missing text; the   *)
(* lines array is [n, sum]: how many lines, and their characters in all.   *)

MAX_PREV_FEEDBACK_CHARS == 4000

\* the nine lines the section opens with, and their characters
FeedbackHeaderLines == 9

FeedbackHeaderLen == 396

\* '### Round ' + ' (' + ')'
RoundHeadingFixedLen == 13

\* (sha || '').slice(0, 7)
ShaShownLen == 7

\* '- `' + ':' + '` (' + '): "' + '"'
CommentLineFixedLen == 12

\* 'other'
OtherCategoryLen == 5

\* '(earlier rounds truncated)'
TruncationNoteLen == 26

RECURSIVE NumDigits(_)
\* `${n}`.length of a non-negative integer
NumDigits(n) == IF n < 10 THEN 1 ELSE 1 + NumDigits(n \div 10)

RECURSIVE InsertByRound(_, _)
\* g put into the list sorted by round, after the groups that are not later
InsertByRound(sorted, g) ==
    IF Len(sorted) = 0 THEN <<g>>
    ELSE IF sorted[1].round <= g.round
         THEN <<sorted[1]>> \o InsertByRound(Tail(sorted), g)
    ELSE <<g>> \o sorted

RECURSIVE SortByRound(_)
\* .sort((a, b) => a.opts.round - b.opts.round)
SortByRound(groups) ==
    IF Len(groups) = 0 THEN <<>>
    ELSE InsertByRound(SortByRound(SubSeq(groups, 1, Len(groups) - 1)),
                       groups[Len(groups)])

\* .filter(o => o?.file && o?.body)
FeedbackComments(g) ==
    LET Usable(c) == c.fileLen # 0 /\ c.bodyLen # 0
    IN  SelectSeq(g.comments, Usable)

\* previousFeedback: the rounds that have comments, by ascending round
CollectFeedback(groups) ==
    LET AsFeedback(g) == [g EXCEPT !.comments = FeedbackComments(g)]
        sorted == SortByRound(groups)
        all    == [k \in 1 .. Len(sorted) |-> AsFeedback(sorted[k])]
        HasComments(g) == Len(g.comments) > 0
    IN  SelectSeq(all, HasComments)

\* `- \`${c.file}:${c.line}\` (${c.category || 'other'}): "${c.body}"`.length
CommentLineLen(c) ==
    CommentLineFixedLen + c.fileLen + c.lineDigits + c.bodyLen
      + (IF c.categoryLen # 0 THEN c.categoryLen ELSE OtherCategoryLen)

\* the heading, the comment lines and the empty line of one round pushed
PushRound(st, r) ==
    [st EXCEPT !.n = @ + Len(r.comments) + 2,
               !.sum = @ + RoundHeadingFixedLen + NumDigits(r.round)
                         + (IF r.shaLen < ShaShownLen THEN r.shaLen ELSE ShaShownLen)
                         + SumLens([k \in 1 .. Len(r.comments) |->
                                       CommentLineLen(r.comments[k])]),
               !.rounds = Append(@, r.round)]

\* lines.join('\n').length
JoinedLen(st) == st.sum + st.n - 1

\* if (lines.join('\n').length > MAX_PREV_FEEDBACK_CHARS)
OverBudget(st) == JoinedLen(st) > MAX_PREV_FEEDBACK_CHARS

RECURSIVE RenderFrom(_, _, _)
\* the loop over previousFeedback from position k
RenderFrom(feedback, k, st) ==
    IF k > Len(feedback) THEN st
    ELSE LET pushed == PushRound(st, feedback[k])
         IN  IF OverBudget(pushed)
             THEN [pushed EXCEPT !.n = @ + 1, !.sum = @ + TruncationNoteLen,
                                 !.truncated = TRUE]
             ELSE RenderFrom(feedback, k + 1, pushed)

\* buildPreviousFeedbackSection(previousFeedback): the rounds shown, whether
\* the truncation note was added, and the length of the text returned
buildPreviousFeedbackSection(feedback) ==
    IF Len(feedback) = 0
    THEN [rounds |-> <<>>, truncated |-> FALSE, len |-> 0]
    ELSE LET st == RenderFrom(feedback, 1,
                      [n |-> FeedbackHeaderLines, sum |-> FeedbackHeaderLen,
                       rounds |-> <<>>, truncated |-> FALSE])
         IN  [rounds |-> st.rounds, truncated |-> st.truncated,
              len |-> JoinedLen(st) + 1]

\* a comment group of a round as the backend returns it
FeedbackComment(bodyLen) ==
    [fileLen |-> 4, lineDigits |-> 2, categoryLen |-> 3, bodyLen |-> bodyLen]

\* what a round may hold: nothing, a short comment, a comment without a
\* category of half the budget, a comment of nearly the whole budget, a
\* group without a body
RoundComments ==
    { <<>>,
      <<FeedbackComment(40)>>,
      <<[FeedbackComment(1900) EXCEPT !.categoryLen = 0]>>,
      <<FeedbackComment(3700), FeedbackComment(40)>>,
      <<FeedbackComment(0)>> }

\* the round groups of a run: rounds 1..n, oldest or newest first
RoundGroupLists ==
    UNION { { [k \in 1 .. n |->
                 [round |-> IF newestFirst THEN n + 1 - k ELSE k,
                  shaLen |-> 40, comments |-> cs[k]]] :
              cs \in [1 .. n -> RoundComments], newestFirst \in BOOLEAN } :
            n \in 0 .. MaxPrevRounds }

FeedbackInit ==
    /\ OutcomeIdle
    /\ FetchIdle
    /\ pf \in [groups : RoundGroupLists, feedback : {<<>>}, rendered : {<<>>},
               truncated : {FALSE}, len : {0}, pc : {"start"}]
    /\ LineMapIdle
    /\ ContextIdle
    /\ ValidateIdle
    /\ ReviewIdle
    /\ ChunkIdle

\* review.js:184-196: previousFeedback is collected from runDetail.groups
CallCollectFeedback ==
    /\ pf.pc = "start"
    /\ pf' = [pf EXCEPT !.feedback = CollectFeedback(pf.groups), !.pc = "collected"]
    /\ UNCHANGED <<lmVars, bcVars, vcVars, rvVars, rc, oc, fr>>

\* buildSystemPrompt: previousSection = buildPreviousFeedbackSection(...)
CallBuildFeedbackSection ==
    /\ pf.pc = "collected"
    /\ LET r == buildPreviousFeedbackSection(pf.feedback)
       IN  pf' = [pf EXCEPT !.rendered = r.rounds, !.truncated = r.truncated,
                            !.len = r.len, !.pc = "done"]
    /\ UNCHANGED <<lmVars, bcVars, vcVars, rvVars, rc, oc, fr>>

FeedbackNext == CallCollectFeedback \/ CallBuildFeedbackSection

SpecFeedback == FeedbackInit /\ [][FeedbackNext]_vars

---------------------------------------------------------------------------
(* reviewChunk and llmWithRetry, src/src/review.js:34-98.  What            *)
(* anthropic.messages.create does is [ok, status, code, text]: a response  *)
(* whose text is a JSON array ("array"), no JSON ("invalid"), JSON that is *)
(* no array ("object") or missing ("none"), or an error with its status (0 *)
(* when it has none) and its code ("" when it has none).                   *)

\* async function llmWithRetry(anthropic, params, maxRetries = 3)
maxRetries == 3

Response(text) == [ok |-> TRUE, status |-> 0, code |-> "", text |-> text]

LlmError(status, code) == [ok |-> FALSE, status |-> status, code |-> code, text |-> ""]

\* a test that retries every error
RetriesEveryError(e) == TRUE

\* e.status === 429 || e.status === 529 || e.status >= 500 || e.code === ...
isRetryable(e) ==
    \/ e.status = 429
    \/ e.status = 529
    \/ e.status >= 500
    \/ e.code = "ECONNREFUSED"
    \/ e.code = "ETIMEDOUT"
    \/ e.code = "ENOTFOUND"

\* Math.pow(2, attempt) * 1000
Backoff(attempt) == (2 ^ attempt) * 1000

\* JSON.parse(cleaned) throws
ParseThrows(text) == text = "invalid"

\* Array.isArray(parsedComments) ? parsedComments : []; the text of a
\* response without text is '[]'
ChunkResult(text) == IF text \in {"array", "none"} THEN "comments" ELSE "empty"

\* llmWithRetry returned a response to reviewChunk
OnResponse(c, text) ==
    IF c.prompt = 1
    THEN IF ParseThrows(text)
         THEN [c EXCEPT !.first = text, !.prompt = 2, !.prompts = @ + 1,
                        !.attempt = 0, !.requests = <<>>, !.delays = <<>>,
                        !.pc = "request"]
         ELSE [c EXCEPT !.first = text, !.result = ChunkResult(text), !.pc = "done"]
    ELSE IF ParseThrows(text)
         THEN [c EXCEPT !.result = "empty", !.pc = "done"]
         ELSE [c EXCEPT !.result = ChunkResult(text), !.pc = "done"]

\* llmWithRetry threw: out of reviewChunk from the first call, caught and
\* turned into [] from the re-prompt
OnThrow(c) ==
    IF c.prompt = 1
    THEN [c EXCEPT !.result = "threw", !.pc = "done"]
    ELSE [c EXCEPT !.result = "empty", !.pc = "done"]

\* what a request may come back with
RequestOutcomes ==
    {Response(t) : t \in {"array", "invalid", "object", "none"}} \cup
    {LlmError(st, "") : st \in {400, 401, 429, 500, 503, 529}} \cup
    {LlmError(0, c) : c \in {"ECONNREFUSED", "ETIMEDOUT", "ENOTFOUND", "ECONNRESET"}}

ChunkInit ==
    /\ rc = [IdleChunk EXCEPT !.pc = "request", !.prompt = 1, !.prompts = 1]
    /\ LineMapIdle
    /\ ContextIdle
    /\ ValidateIdle
    /\ ReviewIdle
    /\ FeedbackIdle
    /\ OutcomeIdle
    /\ FetchIdle

\* one pass of llmWithRetry's loop up to its await, and what reviewChunk
\* does when llmWithRetry returns or throws
LlmRequest ==
    /\ rc.pc = "request"
    /\ \E o \in RequestOutcomes :
        LET c == [rc EXCEPT !.requests = Append(@, o)]
        IN  rc' = IF o.ok THEN OnResponse(c, o.text)
                  ELSE IF ~isRetryable(o) \/ c.attempt = maxRetries - 1
                  THEN OnThrow(c)
                  ELSE [c EXCEPT !.delays = Append(@, Backoff(c.attempt)),
                                 !.pc = "sleep"]
    /\ UNCHANGED <<lmVars, bcVars, vcVars, rvVars, pf, oc, fr>>

\* the timer of the backoff fires: the next attempt
LlmWake ==
    /\ rc.pc = "sleep"
    /\ rc' = [rc EXCEPT !.attempt = @ + 1, !.pc = "request"]
    /\ UNCHANGED <<lmVars, bcVars, vcVars, rvVars, pf, oc, fr>>

ChunkNext == LlmRequest \/ LlmWake

SpecChunk == ChunkInit /\ [][ChunkNext]_vars

\* every request is answered or fails, and every timer fires
SpecChunkFair == SpecChunk /\ WF_vars(LlmRequest) /\ WF_vars(LlmWake)

---------------------------------------------------------------------------
(* fetchWithRetry, src/unnamed/part_003:190-203, through which every       *)
(* request of github.js but the dismissal goes.  fetch(url, options)       *)
(* resolves with a response of some status, whose retry-after header is    *)
(* absent (<<>>) or holds a number of seconds, or rejects (no connection,  *)
(* a timeout).                                                             *)

\* async function fetchWithRetry(url, options, maxRetries = 3)
fetchMaxRetries == 3

HostResponse(status, retryAfter) ==
    [rejected |-> FALSE, status |-> status, retryAfter |-> retryAfter]

HostRejection == [rejected |-> TRUE, status |-> 0, retryAfter |-> <<>>]

\* what fetch may come back with
HostOutcomes ==
    {HostResponse(st, <<>>) : st \in {200, 404, 500, 503}} \cup
    {HostResponse(429, h) : h \in {<<>>, <<1>>, <<2>>}} \cup
    {HostRejection}

\* parseInt(res.headers.get('retry-after') || '5', 10)
RetryAfter(h) == IF h = <<>> THEN 5 ELSE h[1]

\* retryAfter * 1000 * (attempt + 1)
RetryDelay(h, attempt) == RetryAfter(h) * 1000 * (attempt + 1)

FetchInit ==
    /\ fr = [IdleFetch EXCEPT !.pc = "request"]
    /\ LineMapIdle
    /\ ContextIdle
    /\ ValidateIdle
    /\ ReviewIdle
    /\ FeedbackIdle
    /\ ChunkIdle
    /\ OutcomeIdle

\* one pass of the loop up to its await of the timer: the response is
\* returned unless its status is 429, and a rejection of fetch leaves the
\* function
FetchRequest ==
    /\ fr.pc = "request"
    /\ \E o \in HostOutcomes :
        LET c == [fr EXCEPT !.responses = Append(@, o)]
        IN  fr' = IF o.rejected
                  THEN [c EXCEPT !.result = "threw", !.pc = "done"]
                  ELSE IF o.status = 429
                  THEN [c EXCEPT !.delays = Append(@, RetryDelay(o.retryAfter, c.attempt)),
                                 !.pc = "sleep"]
                  ELSE [c EXCEPT !.result = "returned", !.status = o.status,
                                 !.pc = "done"]
    /\ UNCHANGED <<lmVars, bcVars, vcVars, rvVars, pf, rc, oc>>

\* the timer fires: continue, and the throw after the last pass
FetchWake ==
    /\ fr.pc = "sleep"
    /\ fr' = IF fr.attempt + 1 < fetchMaxRetries
              THEN [fr EXCEPT !.attempt = @ + 1, !.pc = "request"]
              ELSE [fr EXCEPT !.attempt = @ + 1, !.result = "threw", !.pc = "done"]
    /\ UNCHANGED <<lmVars, bcVars, vcVars, rvVars, pf, rc, oc>>

FetchNext == FetchRequest \/ FetchWake

SpecFetch == FetchInit /\ [][FetchNext]_vars

---------------------------------------------------------------------------
(* What a patch exposes, stated line by line and without the cursor *)

FirstChar(raw) == IF Len(raw) = 0 THEN "" ELSE raw[1]

IsHeaderAt(lines, i) == HunkMatch(lines[i]) # Null

\* the lines of the patch that are neither headers, deletions nor markers
MappedIdx(lines) ==
    {i \in 1 .. Len(lines) :
        ~IsHeaderAt(lines, i) /\ FirstChar(lines[i]) \notin {"-", "\\"}}

\* the last hunk header above line i, 0 when there is none
HeaderAbove(lines, i) ==
    LET hs == {j \in 1 .. i - 1 : IsHeaderAt(lines, j)}
    IN  IF hs = {} THEN 0 ELSE CHOOSE j \in hs : \A h \in hs : h <= j

\* the number line i carries: its hunk's +c plus the mapped lines between
NumberAt(lines, i) ==
    LET h == HeaderAbove(lines, i)
    IN  (IF h = 0 THEN 0 ELSE ParseInt(HunkMatch(lines[h])))
          + Cardinality({k \in h + 1 .. i - 1 : k \in MappedIdx(lines)})

\* a unified diff of one or more hunks: a header first, then headers,
\* context, added and deleted lines and no-newline markers
WellFormed(p) ==
    /\ ~Falsy(p)
    /\ LET lines == Split(p)
       IN  /\ IsHeaderAt(lines, 1)
           /\ \A i \in 1 .. Len(lines) :
                 IsHeaderAt(lines, i) \/ FirstChar(lines[i]) \in {" ", "+", "-", "\\"}

\* the added and context lines that stand below a hunk header
ExposedIdx(lines) ==
    {i \in 1 .. Len(lines) :
        /\ ~IsHeaderAt(lines, i)
        /\ FirstChar(lines[i]) \in {" ", "+"}
        /\ HeaderAbove(lines, i) # 0}

ExposedNumbers(p) ==
    IF Falsy(p) THEN {}
    ELSE {NumberAt(Split(p), i) : i \in ExposedIdx(Split(p))}

\* the mapped line that targetLine t is found at: the first one numbered t
FoundAt(lines, t) ==
    LET hits == {i \in MappedIdx(lines) : NumberAt(lines, i) = t}
    IN  CHOOSE i \in hits : \A h \in hits : i <= h

\* the position (1 = first) of line i among the mapped lines
Ordinal(lines, i) == Cardinality({k \in MappedIdx(lines) : k <= i})

\* the text of mapped line i as a snippet shows it
ShownText(lines, i) ==
    IF FirstChar(lines[i]) = "+" THEN Tail(lines[i]) ELSE lines[i]

SnippetLines == Split(snippet)

---------------------------------------------------------------------------
(* Properties of the line map *)

\* C7: for a well-formed unified diff, getValidLines returns exactly the
\* new-file numbers of its context and added lines: every header resets the
\* cursor to its +c, a context or added line takes the cursor value and
\* advances it, a deleted line does neither.
C7_ValidLinesExact ==
    (lmPc # "start" /\ WellFormed(patch))
        => valid = {NumberAt(Split(patch), i) : i \in ExposedIdx(Split(patch))}

\* the deletion patch of the tests yields {5, 6, 7}
C7_Witness ==
    lmPc = "valid" /\ patch = PatchDeletion /\ valid = {5, 6, 7}

\* C8: every number getValidLines reports is the number of an added or
\* context line below a hunk header; text before the first header and the
\* empty segment after a final newline contribute nothing.
C8_OnlyExposedLines ==
    lmPc # "start" => valid \subseteq ExposedNumbers(patch)

\* C9: extractSnippet(patch, L) is null exactly when L is not in
\* getValidLines(patch).
C9_NullIffNotValid ==
    lmPc = "snippet" => ((snippet = Null) <=> (targetLine \notin valid))

\* a target absent from a non-empty line map gives null
C9_Witness ==
    lmPc = "snippet" /\ valid # {} /\ targetLine \notin valid /\ snippet = Null

\* C10 as stated, for a well-formed unified diff: 3 lines around an interior
\* mapped line, 2 lines when L is the first or the last mapped line, L's text
\* included, never more than 3.
C10_TwoLinesAtEnds ==
    (lmPc = "snippet" /\ WellFormed(patch) /\ targetLine \in valid) =>
        LET lines == Split(patch)
            k == Ordinal(lines, FoundAt(lines, targetLine))
            m == Cardinality(MappedIdx(lines))
            n == Len(SnippetLines)
        IN  /\ (1 < k /\ k < m) => n = 3
            /\ (k = 1 \/ k = m) => n = 2
            /\ \E j \in 1 .. n :
                  SnippetLines[j] = ShownText(lines, FoundAt(lines, targetLine))
            /\ n <= 3

\* C10 amended: as stated when the patch maps at least two lines; when L is
\* the only mapped line the snippet is that one line.
C10_ClippedAtEnds ==
    (lmPc = "snippet" /\ targetLine \in valid) =>
        LET lines == Split(patch)
            k == Ordinal(lines, FoundAt(lines, targetLine))
            m == Cardinality(MappedIdx(lines))
            n == Len(SnippetLines)
        IN  /\ (1 < k /\ k < m) => n = 3
            /\ ((k = 1 \/ k = m) /\ m >= 2) => n = 2
            /\ m = 1 => n = 1
            /\ \E j \in 1 .. n :
                  SnippetLines[j] = ShownText(lines, FoundAt(lines, targetLine))
            /\ n <= 3

\* the only mapped line of the no-newline patch comes back alone
C10_Witness ==
    /\ lmPc = "snippet"
    /\ patch = PatchNoNewline
    /\ targetLine = 2
    /\ snippet = <<"b">>

\* the texts of the mapped lines of the patch as a snippet shows them: an
\* added line without its first character, any other line as it is
ShownTexts(lines) ==
    LET Mapped(raw) == HunkMatch(raw) = Null /\ FirstChar(raw) \notin {"-", "\\"}
        mapped == SelectSeq(lines, Mapped)
    IN  [k \in 1 .. Len(mapped) |->
            IF FirstChar(mapped[k]) = "+" THEN Tail(mapped[k]) ELSE mapped[k]]

\* C11: the lines of a snippet are consecutive mapped lines of the patch, an
\* added line without its leading '+', every other mapped line unchanged (a
\* context line keeps its leading space); no deleted line and no no-newline
\* marker is among them.
C11_MarkersStripped ==
    (lmPc = "snippet" /\ snippet # Null) =>
        LET texts == ShownTexts(Split(patch))
            n     == Len(SnippetLines)
        IN  \E lo \in 1 .. Len(texts) :
                /\ lo + n - 1 <= Len(texts)
                /\ SubSeq(texts, lo, lo + n - 1) = SnippetLines

\* around line 11 of the tests' patch: a context line and two added lines
C11_Witness ==
    /\ lmPc = "snippet"
    /\ patch = PatchSimple
    /\ targetLine = 11
    /\ SnippetLines = << <<" ", "k">>, <<"b">>, <<"b">> >>

\* C12: for a null or undefined patch getValidLines returns the empty set and
\* extractSnippet returns null for every target line, and neither reaches the
\* split of the patch, which would throw.
C12_AbsentPatch ==
    (lmPc # "start" /\ patch = Null) =>
        /\ valid = {}
        /\ ~SplitThrows(patch)
        /\ lmPc = "snippet" => snippet = Null

\* both functions applied to the null patch
C12_Witness ==
    /\ lmPc = "snippet"
    /\ patch = Null
    /\ targetLine > 0
    /\ valid = {}
    /\ snippet = Null

\* the lines of the patch that do not begin with a backslash
WithoutMarkers(p) ==
    LET NotMarker(raw) == FirstChar(raw) # "\\"
    IN  SelectSeq(Split(p), NotMarker)

HasMarker(p) ==
    ~Falsy(p) /\ \E i \in 1 .. Len(p) : p[i] = "\\" /\ (i = 1 \/ p[i - 1] = NL)

\* the snippet around t that the walk over these lines gives
SnippetOver(lines, t) ==
    LET pl  == PatchLinesFrom(lines, 1, 0)
        idx == FindIndex(pl, t)
    IN  IF idx = -1 THEN Null
        ELSE Join(SliceTexts(pl, SnippetStart(idx), SnippetEnd(Len(pl), idx)))

\* C13: a patch line that begins with a backslash registers no number and
\* leaves the cursor alone: getValidLines and extractSnippet give what their
\* walks give over the lines of the patch with that line taken out.
C13_MarkerSkipped ==
    (lmPc # "start" /\ HasMarker(patch)) =>
        /\ lmPc = "valid" => valid = ValidFrom(WithoutMarkers(patch), 1, 0)
        /\ lmPc = "snippet" => snippet = SnippetOver(WithoutMarkers(patch), targetLine)

\* a marker between two added lines: the second is line 3
C13_Witness ==
    /\ lmPc = "snippet"
    /\ patch = Join(<<HdrTwo, AddLine, NoNewlineMarker, AddLine>>)
    /\ valid = {2, 3}
    /\ targetLine = 3
    /\ SnippetLines = << <<"b">>, <<"b">> >>

---------------------------------------------------------------------------
(* Properties of buildContext *)

\* the places (chunk, position) at which file i has a section
Places(i) ==
    {ck \in (1 .. Len(chunks)) \X (1 .. MaxFiles + 1) :
        /\ ck[2] <= Len(chunks[ck[1]].sections)
        /\ chunks[ck[1]].sections[ck[2]].file = i}

\* the files that are in no chunk
Dropped == {i \in 1 .. Len(files) : Places(i) = {}}

\* the files that have content and whose section is the diff-only one
Downgraded ==
    {i \in 1 .. Len(files) :
        /\ files[i].contentLen # 0
        /\ \E ck \in Places(i) : ~chunks[ck[1]].sections[ck[2]].full}

\* C5: the estimated token cost of the whole text of every emitted chunk is
\* at most DEFAULT_CONTEXT_WINDOW - systemTokens - RESERVED_RESPONSE; stated
\* here for the chunks that hold file sections (manifest, sections and the
\* separators between them), the placeholder chunk left aside.
C5_ChunkWithinBudget ==
    bcPc = "done" =>
        \A c \in 1 .. Len(chunks) :
            ~chunks[c].placeholder =>
                estimateTokens(ChunkTextLen(files, chunks[c])) <= Budget(systemTokens)

\* C6: every input file has exactly one disposition: one section in one
\* chunk, with the full content or diff-only, or no section at all and a
\* count in truncatedCount; no section of a file appears twice.
C6_OneDisposition ==
    bcPc = "done" =>
        /\ \A i \in 1 .. Len(files) :
              /\ Cardinality(Places(i)) <= 1
              /\ \A ck \in Places(i) :
                    chunks[ck[1]].sections[ck[2]] \in
                        {buildFileSection(files, i, TRUE),
                         buildFileSection(files, i, FALSE)}
        /\ \A c \in 1 .. Len(chunks) : \A k \in 1 .. Len(chunks[c].sections) :
              chunks[c].sections[k].file \in 1 .. Len(files)
        /\ truncatedCount - Cardinality(Downgraded) = Cardinality(Dropped)

\* two chunks, one file with its full content, one file dropped
C6_Witness ==
    /\ bcPc = "done"
    /\ Len(chunks) >= 2
    /\ Dropped # {}
    /\ \E i \in 1 .. Len(files) :
          \E ck \in Places(i) : chunks[ck[1]].sections[ck[2]].full

RECURSIVE PlacedFrom(_)
\* the files of the sections of the chunks, in the order they are emitted
PlacedFrom(cs) ==
    IF Len(cs) = 0 THEN <<>>
    ELSE [k \in 1 .. Len(cs[1].sections) |-> cs[1].sections[k].file]
             \o PlacedFrom(Tail(cs))

PlacedOrder == PlacedFrom(chunks)

\* the estimated token size of the patch of file i
PatchTokens(i) == (files[i].patchLen + 2) \div 3

\* C14: across the chunks in order, the file sections stand in ascending
\* order of the estimated token size of the files' patches, files of equal
\* size in their input order; calling buildContext on the same input again
\* gives the same chunks and the same truncatedCount.
C14_AscendingStable ==
    bcPc = "done" =>
        /\ \A a, b \in 1 .. Len(PlacedOrder) :
              a < b =>
                  \/ PatchTokens(PlacedOrder[a]) < PatchTokens(PlacedOrder[b])
                  \/ /\ PatchTokens(PlacedOrder[a]) = PatchTokens(PlacedOrder[b])
                     /\ PlacedOrder[a] < PlacedOrder[b]
        /\ buildContext(files, systemTokens) =
              [chunks |-> chunks, truncatedCount |-> truncatedCount]

\* the smallest diff comes last in the input and first in the output; the
\* two files of equal diff size keep their order
C14_Witness ==
    /\ bcPc = "done"
    /\ Len(files) = 3
    /\ PatchTokens(1) = PatchTokens(2)
    /\ PatchTokens(3) < PatchTokens(1)
    /\ files[1] # files[2]
    /\ PlacedOrder = <<3, 1, 2>>

\* C15: buildContext returns at least one chunk; the placeholder chunk is
\* emitted exactly when no file has a section in any chunk, and is then the
\* only chunk; every other chunk holds the manifest and at least one section.
C15_PlaceholderIffNothingFits ==
    bcPc = "done" =>
        /\ Len(chunks) >= 1
        /\ (\E c \in 1 .. Len(chunks) : chunks[c].placeholder)
              <=> (\A i \in 1 .. Len(files) : Places(i) = {})
        /\ \A c \in 1 .. Len(chunks) :
              /\ chunks[c].placeholder => (Len(chunks) = 1 /\ chunks[c].sections = <<>>)
              /\ ~chunks[c].placeholder => Len(chunks[c].sections) >= 1
              /\ ChunkTextLen(files, chunks[c]) > buildManifest(files)

\* two files, neither fits: the placeholder is the only chunk
C15_Witness ==
    /\ bcPc = "done"
    /\ Len(files) = 2
    /\ truncatedCount = 2
    /\ chunks = <<[sections |-> <<>>, placeholder |-> TRUE]>>

\* what file i adds to truncatedCount according to its disposition
Truncation(i) ==
    IF Places(i) = {} THEN 1
    ELSE IF \E ck \in Places(i) : chunks[ck[1]].sections[ck[2]].full THEN 0
    ELSE IF files[i].contentLen # 0 THEN 1
    ELSE 0

\* C16: truncatedCount is the number of files with content that were emitted
\* diff-only plus the number of files in no chunk; a file emitted with its
\* full content, and a file without content emitted diff-only, count 0.
C16_TruncatedCount ==
    bcPc = "done" =>
        truncatedCount = SumLens([i \in 1 .. Len(files) |-> Truncation(i)])

\* two files in one chunk: the small one with its content, the large one
\* diff-only, truncatedCount = 1
C16_Witness ==
    /\ bcPc = "done"
    /\ Len(files) = 2
    /\ Len(chunks) = 1
    /\ Len(chunks[1].sections) = 2
    /\ chunks[1].sections[1].full
    /\ ~chunks[1].sections[2].full
    /\ files[chunks[1].sections[2].file].contentLen
          > files[chunks[1].sections[1].file].contentLen
    /\ truncatedCount = 1

---------------------------------------------------------------------------
(* Properties of the validation step *)

\* a comment the claim accepts: a non-empty file, a numeric line, a non-empty
\* body, and the line among the valid lines of the patch of that file
Acceptable(c, fs) ==
    /\ ~c.isNull
    /\ c.file # ""
    /\ c.lineT = "num"
    /\ c.body # ""
    /\ \E i \in 1 .. Len(fs) :
          fs[i].filename = c.file /\ c.lineV \in getValidLines(fs[i].patch)

\* C4: the validation step keeps exactly the comments that have a non-empty
\* file, a numeric line, a non-empty body and a line in
\* getValidLines(filePatches[file]), in their input order, and drops every
\* other entry without raising an error.
C4_AcceptsIffValid ==
    vcPc = "done" =>
        LET Ok(c) == Acceptable(c, vcFiles)
        IN  /\ ~vcResult.threw
            /\ vcResult.comments = SelectSeq(vcComments, Ok)

---------------------------------------------------------------------------
(* The rounds of the run *)

\* the rounds of the run that carry no Superseded outcome
Unsuperseded == {k \in 1 .. Len(store.rounds) : store.rounds[k].superseded = 0}

\* C1: after N sequential review invocations that all completed with
\* telemetry available, the run holds exactly the rounds 1..N; round k
\* carries the Superseded outcome (once) exactly when round k+1 exists, and
\* at most one round of the run is un-superseded at any point.
C1_RoundLifecycle ==
    ~hist.failed =>
        /\ Len(store.rounds) = hist.completed
        /\ \A k \in 1 .. Len(store.rounds) :
              /\ store.rounds[k].round = k
              /\ store.rounds[k].superseded = IF k < Len(store.rounds) THEN 1 ELSE 0
        /\ Cardinality(Unsuperseded) <= 1

\* three invocations completed, each superseding the round before it
C1_Witness ==
    /\ ~hist.failed
    /\ hist.completed = 3
    /\ Len(store.rounds) = 3
    /\ store.rounds[1].superseded = 1
    /\ store.rounds[2].superseded = 1
    /\ store.rounds[3].superseded = 0

\* C2: over any sequence of invocations, failed ones included, no round
\* receives the Superseded outcome more than once, and a round is Superseded
\* only if a round with the next number exists in the run.
C2_SupersededOnceWithSuccessor ==
    \A k \in 1 .. Len(store.rounds) :
        /\ store.rounds[k].superseded <= 1
        /\ store.rounds[k].superseded >= 1 =>
              \E j \in 1 .. Len(store.rounds) :
                  store.rounds[j].round = store.rounds[k].round + 1

\* per revision, the files reviewed at it with the lines their patches expose
ReviewedLines ==
    [k \in 1 .. Len(Scenarios) |->
        LET fs == ReviewedFiles(Scenarios[k])
        IN  [i \in 1 .. Len(fs) |->
                [filename |-> fs[i].filename, lines |-> getValidLines(fs[i].patch)]]]

\* line is a line of the patch of the file of that name reviewed at revision k
LineOfReviewedFile(file, line, k) ==
    \E i \in 1 .. Len(ReviewedLines[k]) :
        ReviewedLines[k][i].filename = file /\ line \in ReviewedLines[k][i].lines

\* C3: every inline comment passed to postReview, and every comment group
\* logged to or stored in a round, names a file among the files reviewed at
\* that head revision and a line in getValidLines of that file's patch.
C3_PostedLinesValid ==
    /\ \A p \in Procs :
          LET l == rv[p]
          IN  /\ \A k \in 1 .. Len(l.posts) :
                    /\ l.posts[k].lineT = "num"
                    /\ LineOfReviewedFile(l.posts[k].file, l.posts[k].lineV, l.scenario)
              /\ \A k \in 1 .. Len(l.buffer) :
                    l.buffer[k].ev = "comment" =>
                        LineOfReviewedFile(l.buffer[k].text, l.buffer[k].num, l.scenario)
    /\ \A k \in 1 .. Len(store.rounds) :
          LET r == store.rounds[k]
          IN  \A c \in 1 .. Len(r.comments) :
                  LineOfReviewedFile(r.comments[c].file, r.comments[c].line,
                                     ScenarioOfSha(r.sha))

\* a review posted with an inline comment, another comment of the response
\* dropped, and the comment group logged to the round
C3_Witness ==
    \E p \in Procs :
        /\ rv[p].pc = "flush"
        /\ rv[p].exit = "ok"
        /\ Len(rv[p].posts) > 0
        /\ Len(rv[p].allComments) > Len(rv[p].posts)
        /\ \E k \in 1 .. Len(rv[p].buffer) : rv[p].buffer[k].ev = "comment"

---------------------------------------------------------------------------
(* Properties of the previous-feedback section *)

\* C17: the section lists the prior rounds oldest-first, and when rounds are
\* left out they are the oldest ones: every round left out is older than
\* every round shown, and the most recent round that has comments is shown.
C17_OldestDroppedFirst ==
    (pf.pc = "done" /\ Len(pf.feedback) > 0) =>
        LET shown   == {pf.rendered[k] : k \in 1 .. Len(pf.rendered)}
            all     == {pf.feedback[k].round : k \in 1 .. Len(pf.feedback)}
            omitted == all \ shown
        IN  /\ \A a, b \in 1 .. Len(pf.rendered) :
                  a < b => pf.rendered[a] < pf.rendered[b]
            /\ shown \subseteq all
            /\ \A o \in omitted : \A r \in shown : o < r
            /\ \A r \in all : (\A q \in all : q <= r) => r \in shown

---------------------------------------------------------------------------
(* The outcome of the round *)

\* the outcomes an invocation has logged for its own round, in order
RECURSIVE OwnOutcomes(_)
OwnOutcomes(buffer) ==
    IF Len(buffer) = 0 THEN <<>>
    ELSE (IF buffer[1].ev = "outcome" /\ buffer[1].num = 0
          THEN <<buffer[1].text>> ELSE <<>>) \o OwnOutcomes(Tail(buffer))

\* the invocation has a round and is at or past the posting of the review
AtCommit(l) ==
    /\ l.round
    /\ \/ l.pc \in {"post", "commentIds"}
       \/ l.pc = "flush" /\ l.exit = "ok"

\* C18: an invocation with a round that reaches the posting of the review
\* has by then logged exactly one outcome for the round: 'Changes Requested'
\* if at least one comment passed validation, 'Approved' if none did; and a
\* stored round never carries both, nor 'Approved' together with comments.
C18_OutcomeMatchesComments ==
    /\ \A p \in Procs :
          AtCommit(rv[p]) =>
              OwnOutcomes(rv[p].buffer) =
                  <<IF Len(rv[p].validComments) > 0
                    THEN "Changes Requested" ELSE "Approved">>
    /\ \A p \in Procs :
          (rv[p].round /\ rv[p].posted /\ rv[p].reviewId # 0) =>
              Len(OwnOutcomes(rv[p].buffer)) = 1
    /\ \A k \in 1 .. Len(store.rounds) :
          /\ Len(store.rounds[k].outcomes) <= 1
          /\ store.rounds[k].outcomes = <<"Approved">> => store.rounds[k].comments = <<>>
          /\ store.rounds[k].comments # <<>> =>
                store.rounds[k].outcomes = <<"Changes Requested">>

\* a round stored with 'Changes Requested' and its comment, and an invocation
\* about to post a review without comments after logging 'Approved'
C18_Witness ==
    /\ \E k \in 1 .. Len(store.rounds) :
          /\ store.rounds[k].outcomes = <<"Changes Requested">>
          /\ store.rounds[k].comments # <<>>
    /\ \E p \in Procs :
          /\ rv[p].pc = "post"
          /\ rv[p].round
          /\ rv[p].validComments = <<>>
          /\ Len(rv[p].allComments) > 0
          /\ OwnOutcomes(rv[p].buffer) = <<"Approved">>

---------------------------------------------------------------------------
(* Properties of llmWithRetry and reviewChunk *)

\* the errors the retry is for: rate limiting, overload, server errors and
\* the three network failures
TransientError(o) ==
    /\ ~o.ok
    /\ \/ o.status \in {429, 529}
       \/ o.status >= 500
       \/ o.code \in {"ECONNREFUSED", "ETIMEDOUT", "ENOTFOUND"}

\* what holds of the call of llmWithRetry under way, or of the last one
RetryDiscipline ==
    /\ Len(rc.requests) <= 3
    /\ \A i \in 1 .. Len(rc.requests) - 1 : TransientError(rc.requests[i])
    /\ Len(rc.delays) = (IF rc.pc = "sleep" THEN rc.attempt + 1 ELSE rc.attempt)
    /\ \A i \in 1 .. Len(rc.delays) :
          rc.delays[i] = (CASE i = 1 -> 1000 [] i = 2 -> 2000 [] OTHER -> 0)
    /\ rc.pc = "sleep" =>
          /\ Len(rc.requests) < 3
          /\ TransientError(rc.requests[Len(rc.requests)])
    /\ rc.pc = "request" =>
          /\ Len(rc.requests) = rc.attempt
          /\ \A i \in 1 .. Len(rc.requests) : TransientError(rc.requests[i])
    /\ (rc.pc = "done" /\ rc.result = "threw") =>
          LET last == rc.requests[Len(rc.requests)]
          IN  ~last.ok /\ (~TransientError(last) \/ Len(rc.requests) = 3)

\* C19: one call of llmWithRetry issues at most 3 requests; a request is
\* re-issued only after a retryable error and after a wait of 1 s, then 2 s;
\* any other error is rethrown at once, a retryable error of the third
\* request is rethrown, and the call always ends.
C19_BoundedRetries == []RetryDiscipline /\ <>(rc.pc = "done")

\* three requests, each failing with a retryable error: waits of 1 s and
\* 2 s, then the error thrown
C19_Witness ==
    /\ rc.pc = "done"
    /\ rc.prompt = 1
    /\ rc.result = "threw"
    /\ Len(rc.requests) = 3
    /\ rc.requests[3].status = 529
    /\ rc.delays = <<1000, 2000>>

\* C20: a first response that is not a JSON array leads to exactly one
\* corrective re-prompt and never to an error out of reviewChunk; any other
\* first response leads to none.
C20_OneReprompt ==
    rc.pc = "done" =>
        /\ rc.first \in {"invalid", "object"} =>
              (rc.prompts = 2 /\ rc.result \in {"comments", "empty"})
        /\ rc.first \in {"array", "none"} => rc.prompts = 1
        /\ rc.prompts <= 2

---------------------------------------------------------------------------
(* Properties of the chunk loop of review() *)

\* the chunks of the log whose model call failed with the oversize condition
Oversized(log) == {k \in 1 .. Len(log) : log[k].kind = "oversize"}

\* the chunks of the log that the model answered
Answered(log) == {k \in 1 .. Len(log) : log[k].kind \notin {"oversize", "unreachable"}}

RECURSIVE AnsweredFrom(_, _)
\* the comments of the answered chunks log[k..], in chunk order
AnsweredFrom(log, k) ==
    IF k > Len(log) THEN <<>>
    ELSE (IF k \in Answered(log) THEN log[k].comments ELSE <<>>)
         \o AnsweredFrom(log, k + 1)

\* the comments of the answered chunks that name a line of a file reviewed at
\* revision sc
ValidOfAnswered(log, sc) ==
    LET Keeps(c) == /\ ~c.isNull
                    /\ c.file # ""
                    /\ c.lineT = "num"
                    /\ c.body # ""
                    /\ LineOfReviewedFile(c.file, c.lineV, sc)
    IN  SelectSeq(AnsweredFrom(log, 1), Keeps)

\* an oversize chunk is counted and does not end the loop
OversizeCounted(l) ==
    /\ Cardinality(Oversized(l.chunkLog)) = l.chunksFailed
    /\ \A k \in Oversized(l.chunkLog) :
          k < l.nChunks =>
              \/ Len(l.submitted) > k
              \/ (l.pc = "reviewChunk" /\ l.inFlight = 0 /\ l.chunkIdx = k)

\* the review handed to postReview carries the valid comments of the answered
\* chunks and a truncation note that counts the oversize chunks
CarriesAnswered(l) ==
    /\ l.notice = ""
    /\ l.posts = ValidOfAnswered(l.chunkLog, l.scenario)
    /\ l.noteCount = l.truncatedCount + Cardinality(Oversized(l.chunkLog))
    /\ l.noteCount > 0

\* C21 as stated: an oversize chunk is counted in chunksFailed and every later
\* chunk is still submitted; when a chunk failed with the oversize condition
\* and at least one chunk was answered, the posted review carries the
\* validated comments of all answered chunks and reports the failed chunks in
\* its truncation note.
C21_OversizeAbortsChunkOnly ==
    \A p \in Procs :
        LET l == rv[p]
        IN  /\ OversizeCounted(l)
            /\ (l.posted /\ Oversized(l.chunkLog) # {} /\ Answered(l.chunkLog) # {})
                   => CarriesAnswered(l)

\* C21 amended: the same, for the invocations in which no chunk fails with an
\* error other than the oversize condition; such an error ends the loop and
\* the error notice is posted instead, without the comments of the answered
\* chunks and without a truncation note.
C21_OversizeUnlessUnreachable ==
    \A p \in Procs :
        LET l == rv[p]
        IN  /\ OversizeCounted(l)
            /\ (/\ l.posted
                /\ Oversized(l.chunkLog) # {}
                /\ Answered(l.chunkLog) # {}
                /\ \A k \in 1 .. Len(l.chunkLog) : l.chunkLog[k].kind # "unreachable")
                   => CarriesAnswered(l)

\* three chunks, the second oversize, the third answered after it, and the
\* review posted with an inline comment and the note
C21_Witness ==
    \E p \in Procs :
        /\ rv[p].pc = "flush"
        /\ rv[p].exit = "ok"
        /\ rv[p].nChunks = 3
        /\ Oversized(rv[p].chunkLog) = {2}
        /\ Len(rv[p].chunkLog[3].comments) > 0
        /\ Len(rv[p].posts) > 0
        /\ rv[p].noteCount = 1

\* every chunk of the invocation failed with the oversize condition
AllOversize(l) ==
    /\ l.nChunks > 0
    /\ Len(l.chunkLog) = l.nChunks
    /\ Oversized(l.chunkLog) = 1 .. l.nChunks

\* one review handed to the host: the 'PR diff too large' notice without
\* inline comments; no comment group and no summary group logged for the round
TooLargeNotice(l) ==
    /\ l.postCalls = 1
    /\ l.notice = "oversize"
    /\ l.posts = <<>>
    /\ l.noteCount = 0
    /\ \A k \in 1 .. Len(l.buffer) : l.buffer[k].ev \notin {"comment", "summary"}

C23_ChunksInOrder ==
    \A p \in Procs :
        LET l == rv[p]
        IN  /\ l.inFlight \in {0, 1}
            /\ l.submitted = [k \in 1 .. Len(l.submitted) |-> k]
            /\ Len(l.submitted) = Len(l.chunkLog) + l.inFlight
            /\ Len(l.submitted) <= l.nChunks
            /\ (l.posted /\ l.notice = "")
                   => (Len(l.chunkLog) = l.nChunks /\ l.inFlight = 0)

\* the third chunk in flight after the calls for the first two have settled
C23_Witness ==
    \E p \in Procs :
        /\ rv[p].pc = "awaitChunk"
        /\ rv[p].submitted = <<1, 2, 3>>
        /\ Len(rv[p].chunkLog) = 2
        /\ rv[p].inFlight = 1

---------------------------------------------------------------------------
(* Properties of the flush at the end of review() and trackOutcome() *)

\* an invocation of review() ends with this step
ReviewEnds(p) == rv[p].pc # "idle" /\ rv'[p].pc = "idle"

\* review() ends through the flush of its finally block, and what it hands to
\* its caller is decided by its body alone: it rejects exactly when a call
\* awaited in the try block threw, whether the flush succeeded or failed
ReviewFlushesAtEnd ==
    \A p \in Procs :
        ReviewEnds(p) =>
            /\ rv[p].pc = "flush"
            /\ hist'.completed = hist.completed + 1
            /\ hist'.result = "raised" <=> rv[p].exit = "threw"

\* trackOutcome() has ended after a flush whenever it buffered an event, and
\* it rejects exactly when the thread query threw
TrackFlushedAtEnd ==
    oc.pc = "done" =>
        /\ oc.buffer # <<>> => oc.flush \in {"ok", "failed"}
        /\ oc.exit = "raised" <=> oc.queryFailed
        /\ (hist.result = "raised") = (oc.exit = "raised")

\* C24: on every code path of review() and trackOutcome() on which a
\* telemetry event was buffered, the paths that end in a thrown error or an
\* early return included, flush() is attempted before the function ends, and
\* a failure of flush() is never propagated to the caller.
C24_FlushOnEveryPath == [][ReviewFlushesAtEnd]_vars /\ []TrackFlushedAtEnd

\* review() about to flush the Superseded outcome and the round it buffered,
\* after a call awaited in the try block threw
C24_Witness ==
    \E p \in Procs :
        /\ rv[p].pc = "flush"
        /\ rv[p].exit = "threw"
        /\ \E k \in 1 .. Len(rv[p].buffer) : rv[p].buffer[k].text = "Superseded"
        /\ \E k \in 1 .. Len(rv[p].buffer) : rv[p].buffer[k].ev = "round"

---------------------------------------------------------------------------
(* Properties of trackOutcome() *)

\* the run-level outcomes buffered by the invocation
RunOutcomes(buffer) ==
    SelectSeq(buffer, LAMBDA e : e.ev = "runOutcome")

\* C25: a run receives its terminal outcome exactly once over the lifetime of
\* the pull request: an invocation of trackOutcome that found the run records
\* 'Merged' when the pull request was merged and 'Closed' otherwise, never
\* both, and a run that already holds a terminal outcome never receives a
\* second one, whatever the sequence of closings.
C25_TerminalOutcomeOnce ==
    /\ oc.lookup = "found" =>
          /\ Len(RunOutcomes(oc.buffer)) = 1
          /\ RunOutcomes(oc.buffer)[1].text = IF oc.merged THEN "Merged" ELSE "Closed"
    /\ Len(store.outcomes) <= 1
    /\ \A k \in 1 .. Len(store.outcomes) : store.outcomes[k] \in {"Merged", "Closed"}

\* the comment outcomes the invocation buffered for group k of round r
GroupOutcomes(buffer, r, k) ==
    SelectSeq(buffer, LAMBDA e : e.ev = "commentOutcome" /\ e.num = r /\ e.id = k)

\* whether the host holds a reply to the comment of group k
ReplyOf(replies, k) ==
    IF \E i \in 1 .. Len(replies) : replies[i].k = k /\ replies[i].reply # ""
    THEN "reply" ELSE ""

\* the active round is the round of the highest number among those without a
\* Superseded outcome
ActiveIsHighestLive(l, st) ==
    /\ l.activeIdx \in 1 .. Len(st.rounds)
    /\ st.rounds[l.activeIdx].superseded = 0
    /\ \A j \in 1 .. Len(st.rounds) :
          st.rounds[j].superseded = 0 =>
              st.rounds[j].round <= st.rounds[l.activeIdx].round

\* group k of the active round has exactly one outcome: 'Accepted' for a
\* resolved thread, else 'Ignored', the latest reply attached when there is one
OneOutcome(l, k) ==
    LET os == GroupOutcomes(l.buffer, l.activeIdx, k)
    IN  /\ Len(os) = 1
        /\ os[1].text = IF l.threads[k] = "resolved" THEN "Accepted" ELSE "Ignored"
        /\ l.threads[k] = "open" => os[1].opt = ReplyOf(l.replies, k)
        /\ l.threads[k] = "resolved" => os[1].opt = ""

\* no outcome of a comment group outside the active round
OnlyActiveRound(l) ==
    \A i \in 1 .. Len(l.buffer) :
        l.buffer[i].ev = "commentOutcome" => l.buffer[i].num = l.activeIdx

\* trackOutcome went through its loop: the thread query answered, the
\* finally block entered or left
LoopDone(l) == l.pc \in {"flush", "done"} /\ l.activeIdx # 0 /\ ~l.queryFailed

C27_SilentNoOp ==
    (oc.pc = "done" /\ (~oc.wmKey \/ oc.lookup = "throws" \/ store.runs = 0)) =>
        /\ oc.buffer = <<>>
        /\ oc.flush = ""
        /\ ~oc.queried
        /\ oc.exit = "returned"
        /\ hist.result = "returned"
        /\ hist.exitCode = 0

\* findRun answered that the pull request has no run
C27_Witness ==
    /\ oc.pc = "done"
    /\ oc.wmKey
    /\ oc.lookup = "none"
    /\ store = EmptyStore

\* C29: when the thread query of the host fails during outcome tracking, the
\* failure is tolerated: the run-level Merged/Closed outcome already recorded
\* is still flushed, no comment-level outcome is recorded, and trackOutcome
\* does not end in an error.
C29_ThreadQueryTolerated ==
    (oc.pc = "done" /\ oc.queryFailed) =>
        /\ Len(RunOutcomes(oc.buffer)) = 1
        /\ oc.flush \in {"ok", "failed"}
        /\ \A i \in 1 .. Len(oc.buffer) : oc.buffer[i].ev # "commentOutcome"
        /\ oc.exit = "returned"
        /\ hist.exitCode = 0

---------------------------------------------------------------------------
(* Properties of review() without its credentials *)

\* C28: when telemetry is unavailable in review() (no WARPMETRICS_API_KEY, or
\* the run lookup throws), the review goes on and is posted to the host, and
\* the history features stay off for the invocation: no run and no round is
\* created, no round is superseded, no earlier review is dismissed, no
\* previous feedback is injected, and no outcome is recorded.
C28_TelemetryUnavailable ==
    \A p \in Procs :
        LET l == rv[p]
        IN  ~l.wmAvailable =>
                /\ l.pc \notin {"idle", "findRun", "dismiss"}
                /\ l.buffer = <<>>
                /\ ~l.runRef
                /\ ~l.round
                /\ ~l.dismissed
                /\ l.prevIdx = 0
                /\ l.prevFeedback = 0
                /\ (l.pc = "flush" /\ l.exit = "ok") =>
                       (l.postCalls = 1 /\ l.postOk /\ l.posts = l.validComments)
                /\ l.pc = "flush" => Flushed(store, l.buffer) = store

\* a review posted with an inline comment by an invocation without telemetry,
\* the run holding a round with a posted review from an earlier invocation
C28_Witness ==
    \E p \in Procs :
        /\ ~rv[p].wmAvailable
        /\ rv[p].pc = "flush"
        /\ rv[p].exit = "ok"
        /\ Len(rv[p].posts) > 0
        /\ Len(store.rounds) > 0
        /\ store.rounds[1].reviewId # 0
        /\ store.rounds[1].comments # <<>>

\* C30: when LLM_API_KEY is missing, review() sets a non-zero exit status and
\* returns before any call to the telemetry store, the host or the model is
\* attempted and before any telemetry event is buffered.
C30_MissingKeyExits ==
    ~hist.llmKey =>
        /\ hist.exitCode = 1
        /\ hist.result = "returned"
        /\ hist.completed = hist.started
        /\ \A p \in Procs : rv[p] = IdleLocal

\* an invocation without the key, after one that recorded a run and a round
C30_Witness ==
    /\ ~hist.llmKey
    /\ hist.started = 2
    /\ store.runs = 1
    /\ Len(store.rounds) = 1

---------------------------------------------------------------------------
(* Properties of the failures of review() *)

\* C31: every review invocation that has its credential and does not complete
\* a normal review ends with a review posted on the pull request that explains
\* what happened: no failure of the model call, of fetching the changed files
\* or the file contents, or of posting the review ends the invocation without
\* a posted explanation.
C31_FailureAlwaysExplained ==
    \A p \in Procs :
        (rv[p].pc = "flush" /\ rv[p].exit # "ok") =>
            (rv[p].postCalls > 0 /\ rv[p].postOk)

---------------------------------------------------------------------------
(* Properties of fetchWithRetry *)

\* the failures of a request to the host that are transient: rate limiting,
\* a 5xx response, no connection or a timeout
TransientHostFailure(o) == o.rejected \/ o.status = 429 \/ o.status >= 500

\* C32: a request at the host boundary is retried for every retryable
\* transient failure (rate limiting, 5xx responses, connection and timeout
\* errors) with a delay that doubles per attempt and a hard ceiling on the
\* attempts, and the failure is escalated only after the retries are
\* exhausted.
C32_HostRetriesTransient ==
    /\ Len(fr.responses) <= fetchMaxRetries
    /\ \A i \in 1 .. Len(fr.delays) - 1 : fr.delays[i + 1] = 2 * fr.delays[i]
    /\ fr.pc = "done" =>
          \/ ~TransientHostFailure(fr.responses[Len(fr.responses)])
          \/ Len(fr.responses) = fetchMaxRetries

---------------------------------------------------------------------------
(* Properties of the comments review() posts *)

\* Maximum 5 comments per file, 20 comments total (src/src/prompt.js:57)
MaxCommentsPerFile == 5

MaxCommentsPerRun == 20

\* the inline comments of a review that are on one file
CommentsOn(posts, file) ==
    Cardinality({k \in 1 .. Len(posts) : posts[k].file = file})

\* C33: review() applies the comment caps to the validated set before it
\* posts: no posted review carries more than 5 inline comments on one file or
\* more than 20 inline comments in total, whatever number of valid comments
\* the model returned.
C33_CapsApplied ==
    \A p \in Procs :
        rv[p].posted =>
            /\ Len(rv[p].posts) <= MaxCommentsPerRun
            /\ \A k \in 1 .. Len(rv[p].posts) :
                  CommentsOn(rv[p].posts, rv[p].posts[k].file) <= MaxCommentsPerFile

---------------------------------------------------------------------------
(* Properties of the dismissal of the previous review *)

SupersededEvent(l) == Event("outcome", l.prevIdx, "Superseded")

\* the dismissal returning, whatever the host answered: the outcome of the
\* previous round is buffered next and review() goes on to fetch the files
DismissGoesOn ==
    \A p \in Procs :
        (rv[p].pc = "dismiss" /\ rv'[p] # rv[p]) =>
            /\ rv'[p].dismissal \in DismissResults
            /\ rv'[p].buffer = Append(rv[p].buffer, SupersededEvent(rv[p]))
            /\ rv'[p].pc = "fetchFiles"
            /\ rv'[p].exit = ""

\* no outcome of a previous round that recorded a review before the attempt
\* to dismiss that review, and no invocation going past step 4 without the
\* outcome
DismissedBeforeSuperseded ==
    \A p \in Procs :
        LET l == rv[p]
            superseded == \E k \in 1 .. Len(l.buffer) : l.buffer[k] = SupersededEvent(l)
        IN  l.prevReviewId # 0 =>
                /\ superseded => l.dismissed
                /\ l.pc \notin {"idle", "findRun", "dismiss"} => superseded
                /\ (l.pc = "flush" /\ l.exit = "ok") =>
                       (l.round /\ l.postCalls = 1 /\ l.postOk)

\* C34: when the previous round recorded a posted review, review() attempts
\* to dismiss it before it marks the round Superseded, and neither a status
\* that is not OK nor an error thrown by the request keeps the round from
\* being superseded or the new review from being created and posted.
C34_DismissBestEffort == [][DismissGoesOn]_vars /\ []DismissedBeforeSuperseded

\* a review with an inline comment posted, and its round created, by an
\* invocation whose request to dismiss the previous review was rejected
C34_Witness ==
    \E p \in Procs :
        /\ rv[p].dismissal = "rejected"
        /\ rv[p].pc = "flush"
        /\ rv[p].exit = "ok"
        /\ rv[p].round
        /\ rv[p].postOk
        /\ Len(rv[p].posts) > 0
        /\ \E k \in 1 .. Len(rv[p].buffer) : rv[p].buffer[k] = SupersededEvent(rv[p])

---------------------------------------------------------------------------
(* Properties of the fallback sequence of buildContext *)

\* the estimated cost of the manifest and of the sections before position k
\* of chunk c
TokensBefore(c, k) ==
    estimateTokens(buildManifest(files))
      + SumLens([j \in 1 .. k - 1 |-> estimateTokens(chunks[c].sections[j].len)])

\* the files in the order of the loop, and the position of the last file of
\* chunk c in it
LoopOrder == SortByDiffSize(files)

LastOf(c) ==
    CHOOSE q \in 1 .. Len(LoopOrder) :
        LoopOrder[q] = chunks[c].sections[Len(chunks[c].sections)].file

\* the section at position k of chunk c is the one the sequence chooses for
\* what the chunk holds before it
ChosenSection(c, k) ==
    LET fc == FileCost(files, chunks[c].sections[k].file)
        t  == TokensBefore(c, k)
    IN  IF t + fc.fullTokens <= Budget(systemTokens)
        THEN chunks[c].sections[k] = fc.fullSection
        ELSE /\ chunks[c].sections[k] = fc.diffSection
             /\ t + fc.diffTokens <= Budget(systemTokens)

\* chunk c was closed by the file that follows its last file in the loop,
\* neither section of which fitted what the chunk held
ClosedByNext(c) ==
    /\ LastOf(c) < Len(LoopOrder)
    /\ LET fc == FileCost(files, LoopOrder[LastOf(c) + 1])
           t  == TokensBefore(c, Len(chunks[c].sections) + 1)
       IN  /\ t + fc.fullTokens > Budget(systemTokens)
           /\ t + fc.diffTokens > Budget(systemTokens)

\* C35: for each file in sorted order buildContext places the section with
\* the full content if it fits the current chunk, else the diff-only section
\* if it fits, else closes the current chunk (only if it holds a section) and
\* retries both in a fresh chunk, else drops the file; a file is dropped only
\* when its diff-only section plus the manifest exceeds the budget of an
\* empty chunk, and a closed chunk never receives a later file.
C35_FallbackSequence ==
    bcPc = "done" =>
        /\ \A c \in 1 .. Len(chunks) : \A k \in 1 .. Len(chunks[c].sections) :
              ChosenSection(c, k)
        /\ \A c \in 1 .. Len(chunks) - 1 : ClosedByNext(c)
        /\ \A i \in Dropped :
              /\ TokensBefore(1, 1) + FileCost(files, i).diffTokens > Budget(systemTokens)
              /\ TokensBefore(1, 1) + FileCost(files, i).fullTokens > Budget(systemTokens)
        /\ LET Placed(i) == i \notin Dropped
           IN  PlacedOrder = SelectSeq(LoopOrder, Placed)

\* three files: the first with its full content and the second diff-only in
\* the first chunk, the third alone in a second chunk
C35_Witness ==
    /\ bcPc = "done"
    /\ Len(files) = 3
    /\ Len(chunks) = 2
    /\ Len(chunks[1].sections) = 2
    /\ chunks[1].sections[1].full
    /\ ~chunks[1].sections[2].full
    /\ files[chunks[1].sections[2].file].contentLen # 0
    /\ Len(chunks[2].sections) = 1

---------------------------------------------------------------------------
(* Properties of review() under two jobs at one time *)

\* C36: under any interleaving of two review invocations for the same pull
\* request, the round numbers within the run are unique and the pull request
\* has at most one run: two invocations that both read the run before either
\* has flushed never create two rounds with the same number, never create
\* two runs for the same name, and never both leave their round
\* un-superseded.
C36_UniqueUnderInterleaving ==
    /\ store.runs <= 1
    /\ \A i, j \in 1 .. Len(store.rounds) :
          i # j => store.rounds[i].round # store.rounds[j].round
    /\ Cardinality(Unsuperseded) <= 1

---------------------------------------------------------------------------
(* Properties of the run over the life of the pull request *)

\* the run has received a Merged or Closed outcome
RunClosed == store.outcomes # <<>>

\* C37: RunClosed is terminal: once the run has received its Merged or Closed
\* outcome, no later review event for the same pull request (after a reopen
\* and a new push) creates a further round in that run or marks one of its
\* rounds Superseded.
C37_ClosedIsTerminal ==
    [][RunClosed =>
          /\ Len(store'.rounds) = Len(store.rounds)
          /\ \A k \in 1 .. Len(store.rounds) :
                store'.rounds[k].superseded = store.rounds[k].superseded]_vars

---------------------------------------------------------------------------
(* Properties of the classification of a round *)

\* C38: every round group created by a review invocation receives exactly
\* one classification outcome ('Changes Requested' or 'Approved') before the
\* invocation ends, on every path through review() after the round is
\* created: also when the model is unreachable, when every chunk is
\* oversize, and when posting the review fails.
C38_EveryRoundClassified ==
    /\ \A p \in Procs :
          (rv[p].round /\ rv[p].pc = "flush") =>
              /\ Len(OwnOutcomes(rv[p].buffer)) = 1
              /\ OwnOutcomes(rv[p].buffer)[1] \in {"Changes Requested", "Approved"}
    /\ \A k \in 1 .. Len(store.rounds) : Len(store.rounds[k].outcomes) = 1

---------------------------------------------------------------------------
(* Properties of the length of the previous-feedback section *)

\* C39: the section buildPreviousFeedbackSection adds to the system prompt
\* never exceeds MAX_PREV_FEEDBACK_CHARS by more than the truncation marker
\* line (the marker, the newline that joins it and the final newline), for
\* any number of prior rounds and any comment lengths.
C39_SectionWithinBudget ==
    pf.pc = "done" =>
        pf.len <= MAX_PREV_FEEDBACK_CHARS + TruncationNoteLen + 2

---------------------------------------------------------------------------
(* Properties of the context lines of a snippet *)

\* the mapped lines a snippet for target t shows: the one t is found at, the
\* mapped line before it and the mapped line after it
SnippetIdx(lines, t) ==
    LET k == Ordinal(lines, FoundAt(lines, t))
    IN  {i \in MappedIdx(lines) : Ordinal(lines, i) \in (k - 1) .. (k + 1)}

\* a patch whose hunks follow one another in the new file without overlap
HunksAscending(lines) ==
    \A i, j \in MappedIdx(lines) :
        i < j => NumberAt(lines, i) < NumberAt(lines, j)

\* C40: the context lines of the snippet extractSnippet(patch, L) returns are
\* L's neighbours in the new file: every line of the snippet has the new-file
\* number L-1, L or L+1, also when L is the last mapped line of one hunk or
\* the first mapped line of the next hunk of a patch with several hunks.
C40_SnippetNeighbours ==
    (lmPc = "snippet" /\ WellFormed(patch) /\ targetLine \in valid
       /\ HunksAscending(Split(patch))) =>
        LET lines == Split(patch)
            shown == SnippetIdx(lines, targetLine)
            first == CHOOSE i \in shown : \A j \in shown : i <= j
        IN  /\ Len(SnippetLines) = Cardinality(shown)
            /\ \A i \in shown :
                  /\ SnippetLines[Ordinal(lines, i) - Ordinal(lines, first) + 1]
                        = ShownText(lines, i)
                  /\ NumberAt(lines, i) \in {targetLine - 1, targetLine, targetLine + 1}

===========================================================================
